---- MODULE Spec2Model ----
(***************************************************************************)
(* Local-first synchronization and timeframe-resolution engine of the      *)
(* wedding planner board: the board store (hooks/useBoard.tsx), the        *)
(* persistence layer (lib/firebase.ts, localStorage) and the timeframe     *)
(* helpers (lib/timeframeUtils.ts).                                        *)
(*                                                                         *)
(* Representation.  A JavaScript null / undefined object is the record     *)
(* Null; an absent or null date is NoDate.  Calendar days are integers     *)
(* yyyymmdd (the "YYYY-MM-DD" strings of the code compare the same way).   *)
(* Instants (createdAt, updatedAt) are milliseconds of the clock `now`.    *)
(* In a JSON blob an instant is [iso |-> t], in a Firestore document it is *)
(* [ts |-> t]; the in-memory board holds the bare value.                   *)
(***************************************************************************)
EXTENDS Integers, Sequences, FiniteSets, TLC

\* ------------------------------------------------------------------ bounds
\* Mutation calls one client issues in a run.
MaxOps == 2
\* Out-of-band writes to the remote document in a run.
MaxExternal == 1
\* Clock ticks after which instants stop growing (timers keep counting down).
MaxTicks == 2
\* Mutation calls each of two collaborating browsers issues in a run.
MaxEdits == 1

\* ------------------------------------------------------- program constants
FIREBASE_DEBOUNCE_MS == 300

\* One clock tick: half a debounce quantum.
TickMs == FIREBASE_DEBOUNCE_MS \div 2

Clients == {"A", "B"}

Null == [isNull |-> TRUE]
NoDate == 0

\* ---------------------------------------------------------- small helpers
SeqMap(Op(_), s) == [i \in 1..Len(s) |-> Op(s[i])]

Min2(a, b) == IF a <= b THEN a ELSE b

Max2(a, b) == IF a >= b THEN a ELSE b

\* r.f when the record has the field, else the default (a missing JSON key).
Get(r, f, default) == IF f \in DOMAIN r THEN r[f] ELSE default

\* { ...a, ...b }
Merge(a, b) == [x \in DOMAIN a \cup DOMAIN b |-> IF x \in DOMAIN b THEN b[x] ELSE a[x]]

\* { ...r, f: v }
With(r, f, v) == [x \in DOMAIN r \cup {f} |-> IF x = f THEN v ELSE r[x]]

\* ------------------------------------------------------------- order keys
\* Category.order / Timeframe.order are JavaScript numbers.  A number is
\* kept as the exact dyadic rational num / 2^exp, exp >= 0, in lowest terms.
RECURSIVE Pow2(_)
Pow2(n) == IF n = 0 THEN 1 ELSE 2 * Pow2(n - 1)

RECURSIVE OrdNorm(_, _)
OrdNorm(num, exp) ==
  IF exp > 0 /\ num % 2 = 0 THEN OrdNorm(num \div 2, exp - 1)
  ELSE [num |-> num, exp |-> exp]

OrdInt(n) == [num |-> n, exp |-> 0]

OrdAdd(a, b) ==
  LET e == Max2(a.exp, b.exp)
  IN  OrdNorm(a.num * Pow2(e - a.exp) + b.num * Pow2(e - b.exp), e)

OrdHalf(a) == OrdNorm(a.num, a.exp + 1)

OrdLess(a, b) == a.num * Pow2(b.exp) < b.num * Pow2(a.exp)

OrdMax(a, b) == IF OrdLess(a, b) THEN b ELSE a

\* Math.max(0, ...orders)
RECURSIVE MaxOrder(_)
MaxOrder(orders) ==
  IF orders = <<>> THEN OrdInt(0)
  ELSE OrdMax(Head(orders), MaxOrder(Tail(orders)))

\* `${order}` for an order key (integral keys only get a plain numeral).
OrdToString(a) ==
  IF a.exp = 0 THEN ToString(a.num)
  ELSE ToString(a.num) \o "/" \o ToString(Pow2(a.exp))

\* --------------------------------------------------------- calendar dates
\* A Date at local midnight is the number YYYYMMDD of its calendar day.
YearOf(d) == d \div 10000

\* getMonth(): 0..11
MonthOf(d) == ((d \div 100) % 100) - 1

DayOf(d) == d % 100

\* Days since 1970-01-01 of the civil date y-m-d (m in 1..12), and back.
DaysFromCivil(y, m, d) ==
  LET yy == IF m <= 2 THEN y - 1 ELSE y
      era == yy \div 400
      yoe == yy - era * 400
      doy == (153 * (IF m > 2 THEN m - 3 ELSE m + 9) + 2) \div 5 + d - 1
      doe == yoe * 365 + yoe \div 4 - yoe \div 100 + doy
  IN  era * 146097 + doe - 719468

CivilFromDays(z) ==
  LET zz == z + 719468
      era == zz \div 146097
      doe == zz - era * 146097
      yoe == (doe - doe \div 1460 + doe \div 36524 - doe \div 146096) \div 365
      doy == doe - (365 * yoe + yoe \div 4 - yoe \div 100)
      mp == (5 * doy + 2) \div 153
      d == doy - (153 * mp + 2) \div 5 + 1
      m == IF mp < 10 THEN mp + 3 ELSE mp - 9
      y == yoe + era * 400 + (IF m <= 2 THEN 1 ELSE 0)
  IN  y * 10000 + m * 100 + d

\* new Date(year, monthIndex, day) at local midnight; a month index outside
\* 0..11 or a day outside the month rolls over as the Date constructor does.
NewDate(y, m, d) ==
  CivilFromDays(DaysFromCivil(y + m \div 12, (m % 12) + 1, 1) + d - 1)

\* toISODateString(date): "YYYY-MM-DD" of the local calendar day.
toISODateString(date) == YearOf(date) * 10000 + (MonthOf(date) + 1) * 100 + DayOf(date)

\* parseISODate(isoString): the Date at local midnight of that day.
parseISODate(iso) == NewDate(iso \div 10000, ((iso \div 100) % 100) - 1, iso % 100)

\* ------------------------------------------------- legacy timeframe names
Range2(s, e) == [start |-> s, end |-> e]

\* new Date(year, monthIndex, day) for a day that exists in that month (every
\* entry of the table below): no roll-over.
LocalDay(y, m, d) == y * 10000 + (m + 1) * 100 + d

\* LEGACY_TIMEFRAME_RANGES: name -> { start, end } (local-midnight Dates).
LEGACY_TIMEFRAME_RANGES ==
  [n \in {"June-Aug 2025", "Sept-Nov 2025", "Dec 2025", "Jan 2026",
          "Feb 1-7", "Feb 8-14", "Feb 15-21", "Feb 22-28",
          "Mar 1-7", "Mar 8-14", "Mar 15-21", "Mar 22-31",
          "Apr 1-15", "Apr 16-30", "May 1-7",
          "May 8", "May 9", "May 10", "May 11", "May 12",
          "May 13", "May 14", "May 15", "May 16", "May 17",
          "Fri May 8", "Sat May 9", "Sun May 10", "Mon May 11", "Tue May 12",
          "Wed May 13", "Thu May 14", "Fri May 15", "Sat May 16", "Sun May 17",
          "Post-Wedding"} |->
    CASE n = "June-Aug 2025" -> Range2(LocalDay(2025, 5, 1), LocalDay(2025, 7, 31))
      [] n = "Sept-Nov 2025" -> Range2(LocalDay(2025, 8, 1), LocalDay(2025, 10, 30))
      [] n = "Dec 2025" -> Range2(LocalDay(2025, 11, 1), LocalDay(2025, 11, 31))
      [] n = "Jan 2026" -> Range2(LocalDay(2026, 0, 1), LocalDay(2026, 0, 31))
      [] n = "Feb 1-7" -> Range2(LocalDay(2026, 1, 1), LocalDay(2026, 1, 7))
      [] n = "Feb 8-14" -> Range2(LocalDay(2026, 1, 8), LocalDay(2026, 1, 14))
      [] n = "Feb 15-21" -> Range2(LocalDay(2026, 1, 15), LocalDay(2026, 1, 21))
      [] n = "Feb 22-28" -> Range2(LocalDay(2026, 1, 22), LocalDay(2026, 1, 28))
      [] n = "Mar 1-7" -> Range2(LocalDay(2026, 2, 1), LocalDay(2026, 2, 7))
      [] n = "Mar 8-14" -> Range2(LocalDay(2026, 2, 8), LocalDay(2026, 2, 14))
      [] n = "Mar 15-21" -> Range2(LocalDay(2026, 2, 15), LocalDay(2026, 2, 21))
      [] n = "Mar 22-31" -> Range2(LocalDay(2026, 2, 22), LocalDay(2026, 2, 31))
      [] n = "Apr 1-15" -> Range2(LocalDay(2026, 3, 1), LocalDay(2026, 3, 15))
      [] n = "Apr 16-30" -> Range2(LocalDay(2026, 3, 16), LocalDay(2026, 3, 30))
      [] n = "May 1-7" -> Range2(LocalDay(2026, 4, 1), LocalDay(2026, 4, 7))
      [] n \in {"May 8", "Fri May 8"} -> Range2(LocalDay(2026, 4, 8), LocalDay(2026, 4, 8))
      [] n \in {"May 9", "Sat May 9"} -> Range2(LocalDay(2026, 4, 9), LocalDay(2026, 4, 9))
      [] n \in {"May 10", "Sun May 10"} -> Range2(LocalDay(2026, 4, 10), LocalDay(2026, 4, 10))
      [] n \in {"May 11", "Mon May 11"} -> Range2(LocalDay(2026, 4, 11), LocalDay(2026, 4, 11))
      [] n \in {"May 12", "Tue May 12"} -> Range2(LocalDay(2026, 4, 12), LocalDay(2026, 4, 12))
      [] n \in {"May 13", "Wed May 13"} -> Range2(LocalDay(2026, 4, 13), LocalDay(2026, 4, 13))
      [] n \in {"May 14", "Thu May 14"} -> Range2(LocalDay(2026, 4, 14), LocalDay(2026, 4, 14))
      [] n \in {"May 15", "Fri May 15"} -> Range2(LocalDay(2026, 4, 15), LocalDay(2026, 4, 15))
      [] n \in {"May 16", "Sat May 16"} -> Range2(LocalDay(2026, 4, 16), LocalDay(2026, 4, 16))
      [] n \in {"May 17", "Sun May 17"} -> Range2(LocalDay(2026, 4, 17), LocalDay(2026, 4, 17))
      [] n = "Post-Wedding" -> Range2(LocalDay(2026, 4, 18), LocalDay(2026, 11, 31))]

\* LEGACY_TIMEFRAME_RANGES[name]: the entry, or Null (undefined).
LegacyRange(name) ==
  IF name \in DOMAIN LEGACY_TIMEFRAME_RANGES THEN LEGACY_TIMEFRAME_RANGES[name] ELSE Null

\* ------------------------------------------------------ name tokenization
\* A display name is a string; the regular expressions of parseTimeframeName
\* see it as a sequence of tokens: a run of letters, a run of digits, a
\* dash, white space.  Lex tabulates the tokens of the names in use.
Alpha(text, lower) == [k |-> "alpha", text |-> text, lower |-> lower]

Num(text, val) == [k |-> "num", text |-> text, val |-> val]

Dash == [k |-> "dash"]

Space == [k |-> "space"]

SHORT_MONTHS ==
  <<"Jan", "Feb", "Mar", "Apr", "May", "Jun", "Jul", "Aug", "Sep", "Oct", "Nov", "Dec">>

SHORT_MONTHS_LOWER ==
  <<"jan", "feb", "mar", "apr", "may", "jun", "jul", "aug", "sep", "oct", "nov", "dec">>

\* Years for which generated month names ("Sep 2026") are tokenized.
LexYears == 2024..2028

StaticLex ==
  [n \in {"Early 2025", "Post-Wedding", "Feb 1-7", "Feb 21-15", "Jun 1-7",
          "May 8", "Fri May 8", "June-Aug 2025", "Rehearsal", "Wedding Sun", ""} |->
    CASE n = "Early 2025" -> <<Alpha("Early", "early"), Space, Num("2025", 2025)>>
      [] n = "Post-Wedding" -> <<Alpha("Post", "post"), Dash, Alpha("Wedding", "wedding")>>
      [] n = "Feb 1-7" -> <<Alpha("Feb", "feb"), Space, Num("1", 1), Dash, Num("7", 7)>>
      [] n = "Feb 21-15" -> <<Alpha("Feb", "feb"), Space, Num("21", 21), Dash, Num("15", 15)>>
      [] n = "Jun 1-7" -> <<Alpha("Jun", "jun"), Space, Num("1", 1), Dash, Num("7", 7)>>
      [] n = "May 8" -> <<Alpha("May", "may"), Space, Num("8", 8)>>
      [] n = "Fri May 8" ->
           <<Alpha("Fri", "fri"), Space, Alpha("May", "may"), Space, Num("8", 8)>>
      [] n = "June-Aug 2025" ->
           <<Alpha("June", "june"), Dash, Alpha("Aug", "aug"), Space, Num("2025", 2025)>>
      [] n = "Rehearsal" -> <<Alpha("Rehearsal", "rehearsal")>>
      [] n = "Wedding Sun" -> <<Alpha("Wedding", "wedding"), Space, Alpha("Sun", "sun")>>
      [] n = "" -> <<>>]

\* generateTimeframeName(date): toLocaleString('en-US', short month, year).
generateTimeframeName(date) ==
  SHORT_MONTHS[MonthOf(date) + 1] \o " " \o ToString(YearOf(date))

\* The <<year, month>> of a generated month name, or <<>>.
GeneratedName(name) ==
  LET hits == {ym \in LexYears \X (1..12) :
                 name = SHORT_MONTHS[ym[2]] \o " " \o ToString(ym[1])}
  IN  IF hits = {} THEN <<>> ELSE CHOOSE ym \in hits : TRUE

LexGenerated(ym) ==
  IF ym = <<>> THEN <<>>
  ELSE <<Alpha(SHORT_MONTHS[ym[2]], SHORT_MONTHS_LOWER[ym[2]]), Space,
         Num(ToString(ym[1]), ym[1])>>

Lex(name) ==
  IF name \in DOMAIN StaticLex THEN StaticLex[name]
  ELSE LexGenerated(GeneratedName(name))

\* ------------------------------------------------------ name parsing
MONTH_NAMES ==
  [n \in {"jan", "january", "feb", "february", "mar", "march", "apr", "april",
          "may", "jun", "june", "jul", "july", "aug", "august",
          "sep", "sept", "september", "oct", "october", "nov", "november",
          "dec", "december"} |->
    CASE n \in {"jan", "january"} -> 0
      [] n \in {"feb", "february"} -> 1
      [] n \in {"mar", "march"} -> 2
      [] n \in {"apr", "april"} -> 3
      [] n = "may" -> 4
      [] n \in {"jun", "june"} -> 5
      [] n \in {"jul", "july"} -> 6
      [] n \in {"aug", "august"} -> 7
      [] n \in {"sep", "sept", "september"} -> 8
      [] n \in {"oct", "october"} -> 9
      [] n \in {"nov", "november"} -> 10
      [] n \in {"dec", "december"} -> 11]

\* parseMonth(name), on the lower-cased name: month index, or -1.
parseMonth(lower) == IF lower \in DOMAIN MONTH_NAMES THEN MONTH_NAMES[lower] ELSE -1

\* inferYear(monthName): May and earlier are 2026, later months 2025.
inferYear(lower) ==
  LET monthIndex == parseMonth(lower)
  IN  IF monthIndex = -1 THEN 2026 ELSE IF monthIndex <= 4 THEN 2026 ELSE 2025

Kinds(toks) == [i \in 1..Len(toks) |-> toks[i].k]

\* /^([A-Za-z]+)\s+(\d+)-(\d+)$/
weekPattern(toks) == Kinds(toks) = <<"alpha", "space", "num", "dash", "num">>

\* /^(?:[A-Za-z]{3}\s+)?([A-Za-z]+)\s+(\d+)$/
dayPattern(toks) ==
  \/ Kinds(toks) = <<"alpha", "space", "num">>
  \/ /\ Kinds(toks) = <<"alpha", "space", "alpha", "space", "num">>
     /\ Len(toks[1].text) = 3

\* /^([A-Za-z]+)\s+(\d{4})$/
monthYearPattern(toks) ==
  Kinds(toks) = <<"alpha", "space", "num">> /\ Len(toks[3].text) = 4

\* /^([A-Za-z]+)-([A-Za-z]+)\s+(\d{4})$/
multiMonthPattern(toks) ==
  Kinds(toks) = <<"alpha", "dash", "alpha", "space", "num">> /\ Len(toks[5].text) = 4

\* The four branches of parseTimeframeName, each on its captured groups.
WeekRange(monthStr, startDay, endDay) ==
  Range2(NewDate(inferYear(monthStr), parseMonth(monthStr), startDay),
         NewDate(inferYear(monthStr), parseMonth(monthStr), endDay))

DayRange(monthStr, day) ==
  Range2(NewDate(inferYear(monthStr), parseMonth(monthStr), day),
         NewDate(inferYear(monthStr), parseMonth(monthStr), day))

MonthYearRange(monthStr, year) ==
  Range2(NewDate(year, parseMonth(monthStr), 1),
         NewDate(year, parseMonth(monthStr),
                 DayOf(NewDate(year, parseMonth(monthStr) + 1, 0))))

MultiMonthRange(startMonthStr, endMonthStr, year) ==
  Range2(NewDate(year, parseMonth(startMonthStr), 1),
         NewDate(year, parseMonth(endMonthStr),
                 DayOf(NewDate(year, parseMonth(endMonthStr) + 1, 0))))

\* parseTimeframeName on the tokens of the name.  The patterns are tried in
\* the order of the code; a pattern that matches but names no month falls
\* through to the next one.
ParseTokens(toks) ==
  IF weekPattern(toks) /\ parseMonth(toks[1].lower) # -1
  THEN WeekRange(toks[1].lower, toks[3].val, toks[5].val)
  ELSE IF dayPattern(toks) /\ parseMonth(toks[Len(toks) - 2].lower) # -1
  THEN DayRange(toks[Len(toks) - 2].lower, toks[Len(toks)].val)
  ELSE IF monthYearPattern(toks) /\ parseMonth(toks[1].lower) # -1
  THEN MonthYearRange(toks[1].lower, toks[3].val)
  ELSE IF /\ multiMonthPattern(toks)
          /\ parseMonth(toks[1].lower) # -1
          /\ parseMonth(toks[3].lower) # -1
  THEN MultiMonthRange(toks[1].lower, toks[3].lower, toks[5].val)
  ELSE Null

\* parseTimeframeName(name): { start, end } or Null.
parseTimeframeName(name) == ParseTokens(Lex(name))

\* Timeframe fields startDate / endDate: NoDate when absent.
HasDates(tf) == Get(tf, "startDate", NoDate) # NoDate /\ Get(tf, "endDate", NoDate) # NoDate

\* { ...tf, startDate: toISODateString(range.start), endDate: ... }
WithRange(tf, range) ==
  Merge(tf, [startDate |-> toISODateString(range.start),
             endDate |-> toISODateString(range.end)])

\* Variant: the parsed name replaces metadata the timeframe already has.
BackfillWithParsedFirst(tf, legacy, parsed) ==
  IF parsed # Null THEN WithRange(tf, parsed)
  ELSE IF HasDates(tf) THEN tf
  ELSE IF legacy # Null THEN WithRange(tf, legacy)
  ELSE tf

\* One step of backfillTimeframeDates, given the legacy entry and the parse
\* of the name: metadata wins, then the legacy table, then the parsed name.
BackfillWith(tf, legacy, parsed) ==
  IF HasDates(tf) THEN tf
  ELSE IF legacy # Null THEN WithRange(tf, legacy)
  ELSE IF parsed # Null THEN WithRange(tf, parsed)
  ELSE tf

backfillOne(tf) == BackfillWith(tf, LegacyRange(tf.name), parseTimeframeName(tf.name))

\* backfillTimeframeDates(timeframes)
backfillTimeframeDates(timeframes) == SeqMap(backfillOne, timeframes)

\* ------------------------------------------------------------ seed board
\* createSeedBoard(): the example board, cut to its first two categories,
\* its first and its last two timeframes and the first task of the first
\* category.
\* Seed ids are generated once, when the module is loaded.
SeedCategories ==
  << [id |-> "cat-venue", name |-> "Venue", order |-> OrdInt(0)],
     [id |-> "cat-food", name |-> "Food & Drink", order |-> OrdInt(1)] >>

SeedTimeframes ==
  << [id |-> "tf-early2025", name |-> "Early 2025", order |-> OrdInt(0),
      startDate |-> NoDate, endDate |-> NoDate],
     [id |-> "tf-weddingsun", name |-> "Wedding Sun", order |-> OrdInt(12),
      startDate |-> NoDate, endDate |-> NoDate],
     [id |-> "tf-post", name |-> "Post-Wedding", order |-> OrdInt(13),
      startDate |-> NoDate, endDate |-> NoDate] >>

\* createTask(title, categoryId, timeframeId, options)
createTask(id, title, categoryId, timeframeId, status, notes) ==
  [id |-> id, title |-> title, categoryId |-> categoryId, timeframeId |-> timeframeId,
   notes |-> notes, priority |-> "normal", assignee |-> "both", status |-> status,
   dueDate |-> NoDate, checklist |-> <<>>, createdAt |-> 0, updatedAt |-> 0]

SeedTasks ==
  << createTask("task-venue", "Book venue", "cat-venue", "tf-early2025",
                "completed", "Venue booked and deposit paid") >>

createSeedBoard(t) ==
  [categories |-> SeedCategories, timeframes |-> SeedTimeframes, tasks |-> SeedTasks,
   createdAt |-> t, updatedAt |-> t]

createDefaultBoard(t) == createSeedBoard(t)

\* ------------------------------------------------- serialized board forms
\* An invalid Date (new Date(undefined)).
InvalidDate == -1

\* JSON.stringify of a Date / of a nullable Date.
JsonDate(t) == [iso |-> t]

JsonDueDate(d) == IF d = NoDate THEN Null ELSE [iso |-> d]

JsonTask(task) ==
  [task EXCEPT !.createdAt = JsonDate(task.createdAt),
               !.updatedAt = JsonDate(task.updatedAt),
               !.dueDate = JsonDueDate(task.dueDate)]

\* JSON.stringify(board)
JSONStringify(board) ==
  [board EXCEPT !.tasks = SeqMap(JsonTask, board.tasks),
                !.createdAt = JsonDate(board.createdAt),
                !.updatedAt = JsonDate(board.updatedAt)]

\* new Date(value) for a parsed JSON value.
NewDateFrom(v) == IF "iso" \in DOMAIN v THEN v.iso ELSE InvalidDate

\* x.name || `${label} ${x.order ?? 0}`
NameOr(x, label) ==
  IF Get(x, "name", "") = "" THEN label \o " " \o OrdToString(Get(x, "order", OrdInt(0)))
  ELSE x.name

\* Variant: the loader rebuilds a timeframe from id, name and order, as it did
\* before timeframes carried date metadata.
NormalizeTimeframeDropsDates(tf) ==
  Merge(tf, [name |-> NameOr(tf, "Timeframe"),
             order |-> Get(tf, "order", OrdInt(0)),
             startDate |-> NoDate,
             endDate |-> NoDate])

\* { ...tf, name: tf.name || `Timeframe ${tf.order ?? 0}`, order: tf.order ?? 0,
\*   startDate: tf.startDate, endDate: tf.endDate }
NormalizeTimeframe(tf) ==
  Merge(tf, [name |-> NameOr(tf, "Timeframe"),
             order |-> Get(tf, "order", OrdInt(0)),
             startDate |-> Get(tf, "startDate", NoDate),
             endDate |-> Get(tf, "endDate", NoDate)])

\* { ...cat, name: cat.name || `Category ${cat.order ?? 0}`, order: cat.order ?? 0 }
NormalizeCategory(cat) ==
  Merge(cat, [name |-> NameOr(cat, "Category"),
              order |-> Get(cat, "order", OrdInt(0))])

\* value || fallback for a string field.
StrOr(r, f, fallback) == IF Get(r, f, "") = "" THEN fallback ELSE r[f]

\* The two date conversions of the loaders: new Date(value) of
\* loadFromStorage, and toDate(value) of convertTimestamps called at time t.
FromJson == [fromJson |-> TRUE]

FromFirestore(t) == [fromJson |-> FALSE, t |-> t]

\* toDate(value): a Timestamp's toDate(), a parsed string, else new Date().
toDate(value, t) ==
  IF "ts" \in DOMAIN value THEN value.ts
  ELSE IF "iso" \in DOMAIN value THEN value.iso
  ELSE t

ConvDate(conv, v) == IF conv.fromJson THEN NewDateFrom(v) ELSE toDate(v, conv.t)

\* task.dueDate ? <conversion>(task.dueDate) : null
DueOr(due, conv) == IF due = Null THEN NoDate ELSE ConvDate(conv, due)

\* Variant: the enum fields use ?? like checklist and notes, so that an empty
\* string stays.
NormalizeTaskNullish(task, conv) ==
  Merge(task, [checklist |-> Get(task, "checklist", <<>>),
               notes |-> Get(task, "notes", ""),
               status |-> Get(task, "status", "not_started"),
               assignee |-> Get(task, "assignee", "unassigned"),
               priority |-> Get(task, "priority", "normal"),
               createdAt |-> ConvDate(conv, Get(task, "createdAt", Null)),
               updatedAt |-> ConvDate(conv, Get(task, "updatedAt", Null)),
               dueDate |-> DueOr(Get(task, "dueDate", Null), conv)])

\* The task defaults shared by loadFromStorage and convertTimestamps.
NormalizeTask(task, conv) ==
  Merge(task, [checklist |-> Get(task, "checklist", <<>>),
               notes |-> Get(task, "notes", ""),
               status |-> StrOr(task, "status", "not_started"),
               assignee |-> StrOr(task, "assignee", "unassigned"),
               priority |-> StrOr(task, "priority", "normal"),
               createdAt |-> ConvDate(conv, Get(task, "createdAt", Null)),
               updatedAt |-> ConvDate(conv, Get(task, "updatedAt", Null)),
               dueDate |-> DueOr(Get(task, "dueDate", Null), conv)])

\* Variant: the loaders normalise the timeframes and do not backfill them.
NormalizeBoardNoBackfill(doc, conv) ==
  LET Norm(task) == NormalizeTask(task, conv)
  IN  Merge(doc,
        [timeframes |-> SeqMap(NormalizeTimeframe, Get(doc, "timeframes", <<>>)),
         categories |-> SeqMap(NormalizeCategory, Get(doc, "categories", <<>>)),
         createdAt |-> ConvDate(conv, Get(doc, "createdAt", Null)),
         updatedAt |-> ConvDate(conv, Get(doc, "updatedAt", Null)),
         tasks |-> SeqMap(Norm, Get(doc, "tasks", <<>>))])

\* The board both loaders build from a parsed document.
NormalizeBoard(doc, conv) ==
  LET Norm(task) == NormalizeTask(task, conv)
  IN  Merge(doc,
        [timeframes |-> backfillTimeframeDates(
                          SeqMap(NormalizeTimeframe, Get(doc, "timeframes", <<>>))),
         categories |-> SeqMap(NormalizeCategory, Get(doc, "categories", <<>>)),
         createdAt |-> ConvDate(conv, Get(doc, "createdAt", Null)),
         updatedAt |-> ConvDate(conv, Get(doc, "updatedAt", Null)),
         tasks |-> SeqMap(Norm, Get(doc, "tasks", <<>>))])

\* loadFromStorage(): the board parsed from the blob, or Null.
loadFromStorage(stored) ==
  IF stored = Null THEN Null ELSE NormalizeBoard(stored, FromJson)

\* What setDoc stores for a Date / a nullable Date: a Firestore Timestamp.
FsDate(t) == [ts |-> t]

FsDueDate(d) == IF d = NoDate THEN Null ELSE [ts |-> d]

FsTask(task) ==
  [task EXCEPT !.createdAt = FsDate(task.createdAt),
               !.updatedAt = FsDate(task.updatedAt),
               !.dueDate = FsDueDate(task.dueDate)]

\* The document setDoc(boardRef, board) stores.
FirestoreDoc(board) ==
  [board EXCEPT !.tasks = SeqMap(FsTask, board.tasks),
                !.createdAt = FsDate(board.createdAt),
                !.updatedAt = FsDate(board.updatedAt)]

\* convertTimestamps(board), called at time t.
convertTimestamps(doc, t) == NormalizeBoard(doc, FromFirestore(t))

\* ------------------------------------------------------ timeframe lookup
\* undefined as a timeframe id.
NoId == ""

\* isDateInTimeframe(date, tf)
isDateInTimeframe(date, tf) ==
  IF Get(tf, "startDate", NoDate) = NoDate \/ Get(tf, "endDate", NoDate) = NoDate THEN FALSE
  ELSE toISODateString(date) >= tf.startDate /\ toISODateString(date) <= tf.endDate

\* isDateInRange(date, start, end): calendar days, inclusive.
isDateInRange(date, start, end) == date >= start /\ date <= end

InLegacyRange(date, range) ==
  range # Null /\ isDateInRange(date, range.start, range.end)

\* The first loop: the id of the first timeframe whose metadata holds date.
RECURSIVE FirstPrimary(_, _)
FirstPrimary(date, tfs) ==
  IF tfs = <<>> THEN NoId
  ELSE IF isDateInTimeframe(date, Head(tfs)) THEN Head(tfs).id
  ELSE FirstPrimary(date, Tail(tfs))

\* The second loop: the first timeframe whose legacy range holds date.
RECURSIVE FirstLegacy(_, _)
FirstLegacy(date, tfs) ==
  IF tfs = <<>> THEN NoId
  ELSE IF InLegacyRange(date, LegacyRange(Head(tfs).name)) THEN Head(tfs).id
  ELSE FirstLegacy(date, Tail(tfs))

\* The primary match when there is one, else the legacy match.
PreferPrimary(primary, legacy) == IF primary # NoId THEN primary ELSE legacy

\* Variant: the legacy loop is skipped when any timeframe carries metadata.
findTimeframeForDateLegacyBoardsOnly(date, timeframes) ==
  LET Dated(tf) == HasDates(tf)
  IN  IF date = NoDate THEN NoId
      ELSE IF SelectSeq(timeframes, Dated) # <<>> THEN FirstPrimary(date, timeframes)
      ELSE PreferPrimary(FirstPrimary(date, timeframes), FirstLegacy(date, timeframes))

\* findTimeframeForDate(date, timeframes)
findTimeframeForDate(date, timeframes) ==
  IF date = NoDate THEN NoId
  ELSE PreferPrimary(FirstPrimary(date, timeframes), FirstLegacy(date, timeframes))

StartOrLegacy(tf, legacy) ==
  IF Get(tf, "startDate", NoDate) # NoDate THEN parseISODate(tf.startDate)
  ELSE IF legacy # Null THEN legacy.start
  ELSE NoDate

\* The start date calculateTimeframeOrder uses for a timeframe: its metadata,
\* else the legacy table, else NoDate (undefined).
OrderStartDate(tf) == StartOrLegacy(tf, LegacyRange(tf.name))

\* Array.prototype.sort by start date (stable): insertion into a sorted list.
RECURSIVE InsertByStart(_, _)
InsertByStart(tf, sorted) ==
  IF sorted = <<>> THEN <<tf>>
  ELSE IF OrderStartDate(Head(sorted)) <= OrderStartDate(tf)
       THEN <<Head(sorted)>> \o InsertByStart(tf, Tail(sorted))
       ELSE <<tf>> \o sorted

RECURSIVE SortByStart(_)
SortByStart(tfs) ==
  IF tfs = <<>> THEN <<>>
  ELSE InsertByStart(tfs[Len(tfs)], SortByStart(SubSeq(tfs, 1, Len(tfs) - 1)))

Orders(tfs) == [i \in 1..Len(tfs) |-> tfs[i].order]

\* The index (1-based) of the first dated timeframe that starts after date;
\* Len + 1 when none does.
InsertIndex(date, starts) ==
  LET later == {i \in 1..Len(starts) : date < starts[i]}
  IN  IF later = {} THEN Len(starts) + 1
      ELSE CHOOSE i \in later : \A j \in later : i <= j

\* The order for a timeframe inserted at insertIndex among the dated ones.
OrderAt(insertIndex, timeframesWithDates, timeframes) ==
  IF Len(timeframesWithDates) = 0
  THEN OrdAdd(MaxOrder(Orders(timeframes)), OrdInt(1))
  ELSE IF insertIndex = 1
  THEN OrdAdd(timeframesWithDates[1].order, OrdInt(-1))
  ELSE IF insertIndex = Len(timeframesWithDates) + 1
  THEN OrdAdd(MaxOrder(Orders(timeframes)), OrdInt(1))
  ELSE OrdHalf(OrdAdd(timeframesWithDates[insertIndex - 1].order,
                      timeframesWithDates[insertIndex].order))

OrderAmong(date, timeframesWithDates, timeframes) ==
  OrderAt(InsertIndex(date, SeqMap(OrderStartDate, timeframesWithDates)),
          timeframesWithDates, timeframes)

\* calculateTimeframeOrder(date, timeframes)
calculateTimeframeOrder(date, timeframes) ==
  LET Dated(tf) == OrderStartDate(tf) # NoDate
  IN  OrderAmong(date, SortByStart(SelectSeq(timeframes, Dated)), timeframes)

\* createTimeframeForDate(date, timeframes), with the id generateId() returns.
createTimeframeForDate(date, timeframes, id) ==
  [id |-> id, name |-> generateTimeframeName(date),
   order |-> calculateTimeframeOrder(date, timeframes),
   startDate |-> toISODateString(NewDate(YearOf(date), MonthOf(date), 1)),
   endDate |-> toISODateString(
       NewDate(YearOf(date), MonthOf(date),
               DayOf(NewDate(YearOf(date), MonthOf(date) + 1, 0))))]

\* ------------------------------------------------- store: board operations
\* Each operator is the board a mutation hands to updateBoard, computed from
\* the board its closure holds.  t is new Date(), id a fresh generateId().


addTaskBoard(board, taskData, id, t) ==
  LET newTask == Merge(taskData, [id |-> id, createdAt |-> t, updatedAt |-> t])
  IN  [board EXCEPT !.tasks = Append(board.tasks, newTask)]

\* 'dueDate' in updates && updates.dueDate
SetsDueDate(updates) == "dueDate" \in DOMAIN updates /\ updates.dueDate # NoDate

\* The board updateTask builds once the timeframe id is settled.
ApplyTaskUpdates(board, id, finalUpdates, updatedTimeframes, t) ==
  LET Upd(task) == IF task.id = id
                   THEN Merge(Merge(task, finalUpdates), [updatedAt |-> t])
                   ELSE task
  IN  [board EXCEPT !.timeframes = updatedTimeframes,
                    !.tasks = SeqMap(Upd, board.tasks)]

\* updateTask with a due date that no timeframe matches.
UpdateTaskCreating(board, id, updates, newTimeframe, t) ==
  ApplyTaskUpdates(board, id, With(updates, "timeframeId", newTimeframe.id),
                   Append(board.timeframes, newTimeframe), t)

UpdateTaskMatching(board, id, updates, matchingTimeframeId, newId, t) ==
  IF matchingTimeframeId # NoId
  THEN ApplyTaskUpdates(board, id, With(updates, "timeframeId", matchingTimeframeId),
                        board.timeframes, t)
  ELSE UpdateTaskCreating(board, id, updates,
         createTimeframeForDate(updates.dueDate, board.timeframes, newId), t)

\* Variant: a timeframeId the caller passes is kept, the due date does not
\* override it.
updateTaskBoardKeepsPassed(board, id, updates, newId, t) ==
  IF ~SetsDueDate(updates) \/ "timeframeId" \in DOMAIN updates
  THEN ApplyTaskUpdates(board, id, updates, board.timeframes, t)
  ELSE UpdateTaskMatching(board, id, updates,
         findTimeframeForDate(updates.dueDate, board.timeframes), newId, t)

updateTaskBoard(board, id, updates, newId, t) ==
  IF ~SetsDueDate(updates) THEN ApplyTaskUpdates(board, id, updates, board.timeframes, t)
  ELSE UpdateTaskMatching(board, id, updates,
         findTimeframeForDate(updates.dueDate, board.timeframes), newId, t)

deleteTaskBoard(board, id) ==
  LET Keep(task) == task.id # id
  IN  [board EXCEPT !.tasks = SelectSeq(board.tasks, Keep)]

moveTaskBoard(board, taskId, categoryId, timeframeId, t) ==
  LET Upd(task) ==
        IF task.id = taskId
        THEN Merge(task, [categoryId |-> categoryId, timeframeId |-> timeframeId,
                          updatedAt |-> t])
        ELSE task
  IN  [board EXCEPT !.tasks = SeqMap(Upd, board.tasks)]

addCategoryBoard(board, name, id) ==
  LET maxOrder == MaxOrder(Orders(board.categories))
      newCategory == [id |-> id, name |-> name, order |-> OrdAdd(maxOrder, OrdInt(1))]
  IN  [board EXCEPT !.categories = Append(board.categories, newCategory)]

updateCategoryBoard(board, id, updates) ==
  LET Upd(cat) == IF cat.id = id THEN Merge(cat, updates) ELSE cat
  IN  [board EXCEPT !.categories = SeqMap(Upd, board.categories)]

\* Variant: the category is removed, its tasks are kept.
deleteCategoryBoardKeepsTasks(board, id) ==
  LET KeepCat(cat) == cat.id # id
  IN  [board EXCEPT !.categories = SelectSeq(board.categories, KeepCat)]

deleteCategoryBoard(board, id) ==
  LET KeepCat(cat) == cat.id # id
      KeepTask(task) == task.categoryId # id
  IN  [board EXCEPT !.categories = SelectSeq(board.categories, KeepCat),
                    !.tasks = SelectSeq(board.tasks, KeepTask)]

addTimeframeBoard(board, name, id) ==
  LET maxOrder == MaxOrder(Orders(board.timeframes))
      newTimeframe == [id |-> id, name |-> name, order |-> OrdAdd(maxOrder, OrdInt(1)),
                       startDate |-> NoDate, endDate |-> NoDate]
  IN  [board EXCEPT !.timeframes = Append(board.timeframes, newTimeframe)]

updateTimeframeBoard(board, id, updates) ==
  LET Upd(tf) == IF tf.id = id THEN Merge(tf, updates) ELSE tf
  IN  [board EXCEPT !.timeframes = SeqMap(Upd, board.timeframes)]

deleteTimeframeBoard(board, id) ==
  LET KeepTf(tf) == tf.id # id
      KeepTask(task) == task.timeframeId # id
  IN  [board EXCEPT !.timeframes = SelectSeq(board.timeframes, KeepTf),
                    !.tasks = SelectSeq(board.tasks, KeepTask)]

reorderTimeframesBoard(board, timeframes) == [board EXCEPT !.timeframes = timeframes]

addChecklistItemBoard(board, taskId, title, id, t) ==
  LET newItem == [id |-> id, title |-> title, completed |-> FALSE]
      Upd(task) ==
        IF task.id = taskId
        THEN Merge(task, [checklist |-> Append(task.checklist, newItem), updatedAt |-> t])
        ELSE task
  IN  [board EXCEPT !.tasks = SeqMap(Upd, board.tasks)]

updateChecklistItemBoard(board, taskId, itemId, updates, t) ==
  LET UpdItem(item) == IF item.id = itemId THEN Merge(item, updates) ELSE item
      Upd(task) ==
        IF task.id = taskId
        THEN Merge(task, [checklist |-> SeqMap(UpdItem, task.checklist), updatedAt |-> t])
        ELSE task
  IN  [board EXCEPT !.tasks = SeqMap(Upd, board.tasks)]

deleteChecklistItemBoard(board, taskId, itemId, t) ==
  LET KeepItem(item) == item.id # itemId
      Upd(task) ==
        IF task.id = taskId
        THEN Merge(task, [checklist |-> SelectSeq(task.checklist, KeepItem), updatedAt |-> t])
        ELSE task
  IN  [board EXCEPT !.tasks = SeqMap(Upd, board.tasks)]

\* --------------------------------------------------- column reordering
\* [...board.timeframes].sort((a, b) => a.order - b.order): stable.
RECURSIVE InsertByOrder(_, _)
InsertByOrder(tf, sorted) ==
  IF sorted = <<>> THEN <<tf>>
  ELSE IF OrdLess(tf.order, Head(sorted).order) THEN <<tf>> \o sorted
  ELSE <<Head(sorted)>> \o InsertByOrder(tf, Tail(sorted))

RECURSIVE SortByOrder(_)
SortByOrder(tfs) ==
  IF tfs = <<>> THEN <<>>
  ELSE InsertByOrder(tfs[Len(tfs)], SortByOrder(SubSeq(tfs, 1, Len(tfs) - 1)))

\* findIndex, 1-based; 0 when absent.
IndexOfId(tfs, id) ==
  IF \E i \in 1..Len(tfs) : tfs[i].id = id
  THEN CHOOSE i \in 1..Len(tfs) : tfs[i].id = id /\ \A j \in 1..(i - 1) : tfs[j].id # id
  ELSE 0

SwapOrders(timeframes, current, other) ==
  LET Upd(t) == IF t.id = current.id THEN With(t, "order", other.order)
                ELSE IF t.id = other.id THEN With(t, "order", current.order)
                ELSE t
  IN  SeqMap(Upd, timeframes)

\* Variant: move-left of the first column wraps around to the last one.
MoveLeftInWraps(timeframes, sorted, index) ==
  IF index < 1 THEN Null
  ELSE IF index = 1 THEN SwapOrders(timeframes, sorted[1], sorted[Len(sorted)])
  ELSE SwapOrders(timeframes, sorted[index], sorted[index - 1])

MoveLeftIn(timeframes, sorted, index) ==
  IF index <= 1 THEN Null
  ELSE SwapOrders(timeframes, sorted[index], sorted[index - 1])

MoveRightIn(timeframes, sorted, index) ==
  IF index < 1 \/ index >= Len(sorted) THEN Null
  ELSE SwapOrders(timeframes, sorted[index], sorted[index + 1])

MoveIn(timeframes, sorted, id, left) ==
  IF left THEN MoveLeftIn(timeframes, sorted, IndexOfId(sorted, id))
  ELSE MoveRightIn(timeframes, sorted, IndexOfId(sorted, id))

\* handleMoveTimeframeLeft(id): the list handed to reorderTimeframes, or Null
\* when the handler returns early.
handleMoveTimeframeLeft(board, id) ==
  MoveIn(board.timeframes, SortByOrder(board.timeframes), id, TRUE)

handleMoveTimeframeRight(board, id) ==
  MoveIn(board.timeframes, SortByOrder(board.timeframes), id, FALSE)

\* ===================================================================== state
VARIABLES
  isFirebaseConfigured, \* lib/firebase.ts: all VITE_FIREBASE_* variables are set
  now,                  \* the clock new Date() reads, ms
  remoteDoc,            \* the Firestore document boards/main, or Null
  externals,            \* out-of-band writes made so far
  writes,               \* writes the remote document has taken so far
  nextId,               \* generateId() calls made so far
  phase,                \* per client: "absent", "init", "mounted", "unmounted"
  state,                \* per client: the reducer state of BoardProvider
  closure,              \* per client: state.board / state.selectedTaskId as the
                        \* mutation callbacks of the last render captured them
  cache,                \* per client: localStorage['wedding-planner-board'], or Null
  timer,                \* per client: the pending debounce timeout, or NoTimer
  inflight,             \* per client: saveBoard calls not yet settled, oldest first
  inbox,                \* per client: snapshots the listener has yet to deliver
  subscribed,           \* per client: the onSnapshot listener is attached
  isFirstLoad,          \* per client: the init effect's isFirstLoad flag
  ops                   \* per client: mutations that reached updateBoard

vars == <<isFirebaseConfigured, now, remoteDoc, externals, writes, nextId, phase, state,
          closure, cache, timer, inflight, inbox, subscribed, isFirstLoad, ops>>

NoTimer == [isNull |-> TRUE]

\* ------------------------------------------------------------ input sets
\* A board an earlier session of this browser left in localStorage.
OldLocalBoard ==
  [createSeedBoard(0) EXCEPT !.tasks = <<>>]

\* A board another collaborator saved to the remote document earlier.
SharedBoard ==
  [categories |-> <<[id |-> "cat-venue", name |-> "Venue", order |-> OrdInt(0)]>>,
   timeframes |-> <<[id |-> "tf-feb1", name |-> "Feb 1-7", order |-> OrdInt(1),
                     startDate |-> 20260201, endDate |-> 20260207]>>,
   tasks |-> <<[createTask("task-shared", "Tasting", "cat-venue", "tf-feb1",
                           "not_started", "")
                EXCEPT !.dueDate = 20260203]>>,
   createdAt |-> 0, updatedAt |-> 0]

\* A document a direct-access script wrote: plain strings for dates, and a
\* task without checklist, notes, status, assignee or priority.
ScriptDoc ==
  [categories |-> <<[id |-> "cat-venue", name |-> "Venue", order |-> OrdInt(0)]>>,
   timeframes |-> <<[id |-> "tf-may8", name |-> "May 8", order |-> OrdInt(2)]>>,
   tasks |-> <<[id |-> "task-script", title |-> "Rehearsal", categoryId |-> "cat-venue",
                timeframeId |-> "tf-may8", dueDate |-> [iso |-> 20260508],
                createdAt |-> [iso |-> 0], updatedAt |-> [iso |-> 0]]>>,
   createdAt |-> [iso |-> 0], updatedAt |-> [iso |-> 0]]

\* A board in use: dated columns, two tasks in one cell (one of them
\* scheduled) and one task elsewhere.
PlannerBoard ==
  [categories |-> <<[id |-> "cat-venue", name |-> "Venue", order |-> OrdInt(0)],
                    [id |-> "cat-food", name |-> "Food & Drink", order |-> OrdInt(1)]>>,
   timeframes |-> <<[id |-> "tf-feb1", name |-> "Feb 1-7", order |-> OrdInt(1),
                     startDate |-> 20260201, endDate |-> 20260207],
                    [id |-> "tf-mar1", name |-> "Mar 1-7", order |-> OrdInt(2),
                     startDate |-> 20260301, endDate |-> 20260307]>>,
   tasks |-> <<[createTask("task-a", "Tasting", "cat-venue", "tf-feb1", "not_started", "")
                EXCEPT !.dueDate = 20260203],
               createTask("task-b", "Deposit", "cat-venue", "tf-feb1", "not_started", ""),
               createTask("task-c", "Menu", "cat-food", "tf-mar1", "not_started", "")>>,
   createdAt |-> 0, updatedAt |-> 0]

InitialCaches == {Null, JSONStringify(OldLocalBoard)}

InitialRemoteDocs == {Null, FirestoreDoc(SharedBoard)}

\* What an out-of-band writer leaves: a script's document, or none (deleted).
ExternalDocs == {ScriptDoc, Null}

\* ------------------------------------------------------------------- Init
InitialState == [board |-> Null, loading |-> TRUE, syncStatus |-> "syncing",
                 selectedTaskId |-> NoId]

InitCommon ==
  /\ externals = 0
  /\ writes = 0
  /\ nextId = 0
  /\ state = [c \in Clients |-> InitialState]
  /\ closure = [c \in Clients |-> [board |-> Null, selectedTaskId |-> NoId]]
  /\ timer = [c \in Clients |-> NoTimer]
  /\ inflight = [c \in Clients |-> <<>>]
  /\ inbox = [c \in Clients |-> <<>>]
  /\ subscribed = [c \in Clients |-> FALSE]
  /\ isFirstLoad = [c \in Clients |-> TRUE]
  /\ ops = [c \in Clients |-> 0]

\* One browser ("A"); the other collaborator acts only through the remote
\* document (ExternalWrite).
Init ==
  /\ InitCommon
  /\ now = 0
  /\ isFirebaseConfigured = TRUE
  /\ remoteDoc \in InitialRemoteDocs
  /\ phase = [c \in Clients |-> IF c = "A" THEN "init" ELSE "absent"]
  /\ \E cached \in InitialCaches :
       cache = [c \in Clients |-> IF c = "A" THEN cached ELSE Null]

\* ------------------------------------------------ persistence orchestrator
\* saveToStorage(board): localStorage.setItem(STORAGE_KEY, JSON.stringify(board))
saveToStorage(board) == JSONStringify(board)

\* The listeners Firestore notifies of a new document state: every attached
\* onSnapshot listener gets the document (Null: it does not exist).
Notify(doc) ==
  [c \in Clients |-> IF subscribed[c] THEN Append(inbox[c], doc) ELSE inbox[c]]

\* The callbacks of client c are those of a render of its current state.
Rendered(c) ==
  closure[c] = [board |-> state[c].board, selectedTaskId |-> state[c].selectedTaskId]

\* React re-renders a mounted provider before it runs the next timer,
\* promise or listener callback; only calls made from one event handler can
\* come before the re-render.
Flushed(c) == phase[c] = "mounted" => Rendered(c)

\* dispatch(...): the reducer state after the dispatches of one handler.  A
\* dispatch reaches the reducer only while the provider is mounted.
Dispatch(c, newState) ==
  IF phase[c] \in {"init", "mounted"} THEN [state EXCEPT ![c] = newState] ELSE state

\* localBoard || createDefaultBoard()
OrDefault(localBoard, t) == IF localBoard # Null THEN localBoard ELSE createDefaultBoard(t)

\* SET_BOARD, SET_SYNC_STATUS, SET_LOADING false and saveToStorage(board).
Adopt(c, board, status) ==
  /\ state' = Dispatch(c, [state[c] EXCEPT !.board = board,
                                           !.syncStatus = status,
                                           !.loading = FALSE])
  /\ cache' = [cache EXCEPT ![c] = saveToStorage(board)]

\* Variant: the fallback starts from the default board although the cache
\* holds one.
LocalFallbackSeeds(c) == Adopt(c, createDefaultBoard(now), "offline")

\* Variant: once the listener has failed, the debounced save is given up like
\* in the unconfigured mode.
debouncedFirebaseSaveOnlyOnline(c, board) ==
  IF ~isFirebaseConfigured \/ state[c].syncStatus = "offline" THEN timer[c]
  ELSE [board |-> board, remaining |-> FIREBASE_DEBOUNCE_MS]

\* The fallback of the init effect: localStorage, else the default board;
\* status offline.  Used when Firebase is not configured, when the
\* subscription reports an error and when subscribing throws.
LocalFallback(c) == Adopt(c, OrDefault(loadFromStorage(cache[c]), now), "offline")

\* The init effect of BoardProvider (runs once, after the first render).
Mount(c) ==
  /\ phase[c] = "init"
  /\ phase' = [phase EXCEPT ![c] = "mounted"]
  /\ IF ~isFirebaseConfigured
     THEN /\ LocalFallback(c)
          /\ UNCHANGED <<subscribed, inbox>>
     ELSE \* subscribeToBoard: onSnapshot attaches the listener, which first
          \* reports the current document.
          /\ subscribed' = [subscribed EXCEPT ![c] = TRUE]
          /\ inbox' = [inbox EXCEPT ![c] = <<remoteDoc>>]
          /\ UNCHANGED <<state, cache>>
  /\ UNCHANGED <<isFirebaseConfigured, now, remoteDoc, externals, writes, nextId, closure,
                 timer, inflight, isFirstLoad, ops>>

\* The init effect when subscribeToBoard throws: the catch branch.
MountThrows(c) ==
  /\ phase[c] = "init"
  /\ isFirebaseConfigured
  /\ phase' = [phase EXCEPT ![c] = "mounted"]
  /\ LocalFallback(c)
  /\ UNCHANGED <<isFirebaseConfigured, now, remoteDoc, externals, writes, nextId, closure,
                 timer, inflight, inbox, subscribed, isFirstLoad, ops>>

\* The listener reports an error: handleError.  Firestore detaches a
\* listener that has failed.
SubscriptionError(c) ==
  /\ Flushed(c)
  /\ subscribed[c]
  /\ subscribed' = [subscribed EXCEPT ![c] = FALSE]
  /\ inbox' = [inbox EXCEPT ![c] = <<>>]
  /\ LocalFallback(c)
  /\ UNCHANGED <<isFirebaseConfigured, now, remoteDoc, externals, writes, nextId, phase,
                 closure, timer, inflight, isFirstLoad, ops>>

\* The first snapshot reports no document: adopt the local board and push it.
SeedRemote(c, board) ==
  /\ Adopt(c, board, "synced")
  /\ inflight' = [inflight EXCEPT ![c] = Append(@, [board |-> board, kind |-> "initial"])]

\* Variant: a snapshot is adopted only when it is newer than the board in
\* memory.
SnapshotCallbackIfNewer(c, firebaseBoard) ==
  IF firebaseBoard # Null /\ state[c].board # Null
     /\ firebaseBoard.updatedAt <= state[c].board.updatedAt
  THEN /\ state' = Dispatch(c, [state[c] EXCEPT !.loading = FALSE])
       /\ UNCHANGED <<cache, inflight>>
  ELSE IF firebaseBoard # Null
  THEN Adopt(c, firebaseBoard, "synced") /\ UNCHANGED inflight
  ELSE IF isFirstLoad[c]
  THEN SeedRemote(c, OrDefault(loadFromStorage(cache[c]), now))
  ELSE /\ state' = Dispatch(c, [state[c] EXCEPT !.loading = FALSE])
       /\ UNCHANGED <<cache, inflight>>

\* Variant: at startup a cached board wins over the remote document and is
\* pushed to it.
SnapshotCallbackPrefersCache(c, firebaseBoard) ==
  IF firebaseBoard # Null /\ ~(isFirstLoad[c] /\ cache[c] # Null)
  THEN Adopt(c, firebaseBoard, "synced") /\ UNCHANGED inflight
  ELSE IF isFirstLoad[c]
  THEN SeedRemote(c, OrDefault(loadFromStorage(cache[c]), now))
  ELSE /\ state' = Dispatch(c, [state[c] EXCEPT !.loading = FALSE])
       /\ UNCHANGED <<cache, inflight>>

\* Variant: the isFirstLoad test is missing, every empty snapshot seeds.
SnapshotCallbackAlwaysSeeds(c, firebaseBoard) ==
  IF firebaseBoard # Null
  THEN Adopt(c, firebaseBoard, "synced") /\ UNCHANGED inflight
  ELSE SeedRemote(c, OrDefault(loadFromStorage(cache[c]), now))

\* Variant: a snapshot without a document is ignored; the callback waits for
\* one that carries a document.
SnapshotCallbackWaits(c, firebaseBoard) ==
  IF firebaseBoard # Null
  THEN Adopt(c, firebaseBoard, "synced") /\ UNCHANGED inflight
  ELSE UNCHANGED <<state, cache, inflight>>

\* Variant: every empty snapshot is treated like the first, the board is
\* re-seeded from the cache and pushed back.
SnapshotCallbackReseeds(c, firebaseBoard) ==
  IF firebaseBoard # Null
  THEN Adopt(c, firebaseBoard, "synced") /\ UNCHANGED inflight
  ELSE SeedRemote(c, OrDefault(loadFromStorage(cache[c]), now))

\* The callback the init effect hands to subscribeToBoard.
SnapshotCallback(c, firebaseBoard) ==
  IF firebaseBoard # Null
  THEN Adopt(c, firebaseBoard, "synced") /\ UNCHANGED inflight
  ELSE IF isFirstLoad[c]
  THEN SeedRemote(c, OrDefault(loadFromStorage(cache[c]), now))
  ELSE /\ state' = Dispatch(c, [state[c] EXCEPT !.loading = FALSE])
       /\ UNCHANGED <<cache, inflight>>

\* snapshot.exists() ? convertTimestamps(snapshot.data()) : null
SnapshotBoard(snap, t) == IF snap = Null THEN Null ELSE convertTimestamps(snap, t)

\* The listener delivers its next snapshot.
SnapshotDelivered(c) ==
  /\ Flushed(c)
  /\ subscribed[c]
  /\ inbox[c] # <<>>
  /\ inbox' = [inbox EXCEPT ![c] = Tail(inbox[c])]
  /\ isFirstLoad' = [isFirstLoad EXCEPT ![c] = FALSE]
  /\ SnapshotCallback(c, SnapshotBoard(Head(inbox[c]), now))
  /\ UNCHANGED <<isFirebaseConfigured, now, remoteDoc, externals, writes, nextId, phase,
                 closure, timer, subscribed, ops>>

\* Variant: a pending timer is kept, the new board is not scheduled.
debouncedFirebaseSaveKeepsFirst(c, board) ==
  IF ~isFirebaseConfigured THEN timer[c]
  ELSE IF timer[c] # NoTimer THEN timer[c]
  ELSE [board |-> board, remaining |-> FIREBASE_DEBOUNCE_MS]

\* Variant: the isFirebaseConfigured test is missing.
debouncedFirebaseSaveUnguarded(c, board) ==
  [board |-> board, remaining |-> FIREBASE_DEBOUNCE_MS]

\* debouncedFirebaseSave(board): the timer it leaves pending.
debouncedFirebaseSave(c, board) ==
  IF ~isFirebaseConfigured THEN timer[c]
  ELSE [board |-> board, remaining |-> FIREBASE_DEBOUNCE_MS]

\* Variant: updateBoard without saveToStorage.
PersistWithoutCache(c, boardWithTimestamp, idsUsed, selected) ==
  /\ state' = Dispatch(c, [state[c] EXCEPT !.board = boardWithTimestamp,
                                           !.selectedTaskId = selected])
  /\ timer' = [timer EXCEPT ![c] = debouncedFirebaseSave(c, boardWithTimestamp)]
  /\ ops' = [ops EXCEPT ![c] = @ + 1]
  /\ nextId' = nextId + idsUsed
  /\ UNCHANGED <<isFirebaseConfigured, now, remoteDoc, externals, writes, phase, closure,
                 cache, inflight, inbox, subscribed, isFirstLoad>>

\* Variant: updateBoard also dispatches SET_SYNC_STATUS syncing.
PersistSyncing(c, boardWithTimestamp, idsUsed, selected) ==
  /\ state' = Dispatch(c, [state[c] EXCEPT !.board = boardWithTimestamp,
                                           !.selectedTaskId = selected,
                                           !.syncStatus = "syncing"])
  /\ cache' = [cache EXCEPT ![c] = saveToStorage(boardWithTimestamp)]
  /\ timer' = [timer EXCEPT ![c] = debouncedFirebaseSave(c, boardWithTimestamp)]
  /\ ops' = [ops EXCEPT ![c] = @ + 1]
  /\ nextId' = nextId + idsUsed
  /\ UNCHANGED <<isFirebaseConfigured, now, remoteDoc, externals, writes, phase, closure,
                 inflight, inbox, subscribed, isFirstLoad>>

\* dispatch UPDATE_BOARD, saveToStorage and debouncedFirebaseSave of
\* updateBoard, with the generateId() calls the mutation made and the task
\* selection it leaves.
Persist(c, boardWithTimestamp, idsUsed, selected) ==
  /\ state' = Dispatch(c, [state[c] EXCEPT !.board = boardWithTimestamp,
                                           !.selectedTaskId = selected])
  /\ cache' = [cache EXCEPT ![c] = saveToStorage(boardWithTimestamp)]
  /\ timer' = [timer EXCEPT ![c] = debouncedFirebaseSave(c, boardWithTimestamp)]
  /\ ops' = [ops EXCEPT ![c] = @ + 1]
  /\ nextId' = nextId + idsUsed
  /\ UNCHANGED <<isFirebaseConfigured, now, remoteDoc, externals, writes, phase, closure,
                 inflight, inbox, subscribed, isFirstLoad>>

\* updateBoard(newBoard)
updateBoard(c, newBoard, idsUsed, selected) ==
  Persist(c, [newBoard EXCEPT !.updatedAt = now], idsUsed, selected)

\* Variant: the timeout callback saves the board in memory when it runs, not
\* the board it was armed with.
TimerFiresCurrentBoard(c) ==
  /\ Flushed(c)
  /\ timer[c] # NoTimer
  /\ timer[c].remaining = 0
  /\ timer' = [timer EXCEPT ![c] = NoTimer]
  /\ state' = Dispatch(c, [state[c] EXCEPT !.syncStatus = "syncing"])
  /\ inflight' = [inflight EXCEPT
        ![c] = Append(@, [board |-> state[c].board, kind |-> "debounced"])]
  /\ UNCHANGED <<isFirebaseConfigured, now, remoteDoc, externals, writes, nextId, phase,
                 closure, cache, inbox, subscribed, isFirstLoad, ops>>

\* Variant: the timeout callback drops its board when a save is in flight.
TimerFiresSkipsWhenBusy(c) ==
  /\ Flushed(c)
  /\ timer[c] # NoTimer
  /\ timer[c].remaining = 0
  /\ timer' = [timer EXCEPT ![c] = NoTimer]
  /\ IF inflight[c] # <<>>
     THEN UNCHANGED <<state, inflight>>
     ELSE /\ state' = Dispatch(c, [state[c] EXCEPT !.syncStatus = "syncing"])
          /\ inflight' = [inflight EXCEPT
                ![c] = Append(@, [board |-> timer[c].board, kind |-> "debounced"])]
  /\ UNCHANGED <<isFirebaseConfigured, now, remoteDoc, externals, writes, nextId, phase,
                 closure, cache, inbox, subscribed, isFirstLoad, ops>>

\* The debounce timeout fires: status syncing, saveBoard(board) starts.
TimerFires(c) ==
  /\ Flushed(c)
  /\ timer[c] # NoTimer
  /\ timer[c].remaining = 0
  /\ timer' = [timer EXCEPT ![c] = NoTimer]
  /\ state' = Dispatch(c, [state[c] EXCEPT !.syncStatus = "syncing"])
  /\ inflight' = [inflight EXCEPT
        ![c] = Append(@, [board |-> timer[c].board, kind |-> "debounced"])]
  /\ UNCHANGED <<isFirebaseConfigured, now, remoteDoc, externals, writes, nextId, phase,
                 closure, cache, inbox, subscribed, isFirstLoad, ops>>

\* The then / catch handlers of a settled saveBoard: the debounced save sets
\* the status, the initial save only logs a failure.
SettledStatus(c, kind, status) ==
  IF kind = "debounced" THEN Dispatch(c, [state[c] EXCEPT !.syncStatus = status])
  ELSE state

\* Variant: the stored document is merged task by task, a task of the old
\* document winning over the written one when it is not older.
WriteSucceedsMerges(c) ==
  /\ Flushed(c)
  /\ inflight[c] # <<>>
  /\ inflight' = [inflight EXCEPT ![c] = Tail(@)]
  /\ remoteDoc' =
       LET doc == FirestoreDoc(Head(inflight[c]).board)
           Newer(task) ==
             IF remoteDoc # Null
                /\ \E j \in DOMAIN remoteDoc.tasks :
                      /\ remoteDoc.tasks[j].id = task.id
                      /\ remoteDoc.tasks[j].updatedAt.ts >= task.updatedAt.ts
             THEN remoteDoc.tasks[CHOOSE j \in DOMAIN remoteDoc.tasks :
                                    remoteDoc.tasks[j].id = task.id]
             ELSE task
       IN  [doc EXCEPT !.tasks = SeqMap(Newer, doc.tasks)]
  /\ writes' = writes + 1
  /\ inbox' = Notify(remoteDoc')
  /\ state' = SettledStatus(c, Head(inflight[c]).kind, "synced")
  /\ UNCHANGED <<isFirebaseConfigured, now, externals, nextId, phase, closure, cache,
                 timer, subscribed, isFirstLoad, ops>>

\* Variant: the listener of the writing client is not told of its own write.
WriteSucceedsWithoutEcho(c) ==
  /\ Flushed(c)
  /\ inflight[c] # <<>>
  /\ inflight' = [inflight EXCEPT ![c] = Tail(@)]
  /\ remoteDoc' = FirestoreDoc(Head(inflight[c]).board)
  /\ writes' = writes + 1
  /\ inbox' = [Notify(remoteDoc') EXCEPT ![c] = inbox[c]]
  /\ state' = SettledStatus(c, Head(inflight[c]).kind, "synced")
  /\ UNCHANGED <<isFirebaseConfigured, now, externals, nextId, phase, closure, cache,
                 timer, subscribed, isFirstLoad, ops>>

\* saveBoard resolves: setDoc stored the board.
WriteSucceeds(c) ==
  /\ Flushed(c)
  /\ inflight[c] # <<>>
  /\ inflight' = [inflight EXCEPT ![c] = Tail(@)]
  /\ remoteDoc' = FirestoreDoc(Head(inflight[c]).board)
  /\ writes' = writes + 1
  /\ inbox' = Notify(remoteDoc')
  /\ state' = SettledStatus(c, Head(inflight[c]).kind, "synced")
  /\ UNCHANGED <<isFirebaseConfigured, now, externals, nextId, phase, closure, cache,
                 timer, subscribed, isFirstLoad, ops>>

\* Variant: a failed save rolls the board and the cache back to the remote
\* document.
WriteFailsRollsBack(c) ==
  /\ Flushed(c)
  /\ inflight[c] # <<>>
  /\ inflight' = [inflight EXCEPT ![c] = Tail(@)]
  /\ IF remoteDoc = Null
     THEN /\ state' = SettledStatus(c, Head(inflight[c]).kind, "error")
          /\ UNCHANGED cache
     ELSE Adopt(c, convertTimestamps(remoteDoc, now), "error")
  /\ UNCHANGED <<isFirebaseConfigured, now, remoteDoc, externals, writes, nextId, phase,
                 closure, timer, inbox, subscribed, isFirstLoad, ops>>

\* Variant: a rejected save is scheduled again, on a timer of its own.
WriteFailsRetries(c) ==
  /\ Flushed(c)
  /\ inflight[c] # <<>>
  /\ inflight' = [inflight EXCEPT ![c] = Tail(@)]
  /\ state' = SettledStatus(c, Head(inflight[c]).kind, "error")
  /\ timer' = [timer EXCEPT ![c] = IF timer[c] # NoTimer THEN timer[c]
                                   ELSE [board |-> Head(inflight[c]).board,
                                         remaining |-> FIREBASE_DEBOUNCE_MS]]
  /\ UNCHANGED <<isFirebaseConfigured, now, remoteDoc, externals, writes, nextId, phase,
                 closure, cache, inbox, subscribed, isFirstLoad, ops>>

\* saveBoard rejects: the write did not reach the document.
WriteFails(c) ==
  /\ Flushed(c)
  /\ inflight[c] # <<>>
  /\ inflight' = [inflight EXCEPT ![c] = Tail(@)]
  /\ state' = SettledStatus(c, Head(inflight[c]).kind, "error")
  /\ UNCHANGED <<isFirebaseConfigured, now, remoteDoc, externals, writes, nextId, phase,
                 closure, cache, timer, inbox, subscribed, isFirstLoad, ops>>

\* Variant: the cleanup unsubscribes but leaves the debounce timeout.
UnmountLeavesTimer(c) ==
  /\ phase[c] = "mounted"
  /\ Rendered(c)
  /\ phase' = [phase EXCEPT ![c] = "unmounted"]
  /\ subscribed' = [subscribed EXCEPT ![c] = FALSE]
  /\ inbox' = [inbox EXCEPT ![c] = <<>>]
  /\ UNCHANGED <<isFirebaseConfigured, now, remoteDoc, externals, writes, nextId, state,
                 closure, cache, timer, inflight, isFirstLoad, ops>>

\* The cleanup the configured init effect returns: unsubscribe() and
\* clearTimeout.  The unconfigured effect returns no cleanup.
Unmount(c) ==
  /\ phase[c] = "mounted"
  /\ Rendered(c)
  /\ phase' = [phase EXCEPT ![c] = "unmounted"]
  /\ IF isFirebaseConfigured
     THEN /\ subscribed' = [subscribed EXCEPT ![c] = FALSE]
          /\ inbox' = [inbox EXCEPT ![c] = <<>>]
          /\ timer' = [timer EXCEPT ![c] = NoTimer]
     ELSE UNCHANGED <<subscribed, inbox, timer>>
  /\ UNCHANGED <<isFirebaseConfigured, now, remoteDoc, externals, writes, nextId, state,
                 closure, cache, inflight, isFirstLoad, ops>>

\* React re-renders the provider: the callbacks capture the current state.
Render(c) ==
  /\ phase[c] = "mounted"
  /\ closure[c] # [board |-> state[c].board, selectedTaskId |-> state[c].selectedTaskId]
  /\ closure' = [closure EXCEPT
        ![c] = [board |-> state[c].board, selectedTaskId |-> state[c].selectedTaskId]]
  /\ UNCHANGED <<isFirebaseConfigured, now, remoteDoc, externals, writes, nextId, phase, state,
                 cache, timer, inflight, inbox, subscribed, isFirstLoad, ops>>

\* Time passes: one tick.  A pending re-render has happened by then.
Tick ==
  /\ \A c \in Clients : Flushed(c)
  /\ now' = Min2(now + TickMs, MaxTicks * TickMs)
  /\ timer' = [c \in Clients |->
                 IF timer[c] = NoTimer THEN NoTimer
                 ELSE [timer[c] EXCEPT !.remaining = Max2(0, @ - TickMs)]]
  /\ UNCHANGED <<isFirebaseConfigured, remoteDoc, externals, writes, nextId, phase, state,
                 closure, cache, inflight, inbox, subscribed, isFirstLoad, ops>>

\* Another writer (a collaborator's browser, a script) replaces or deletes
\* the remote document; what it writes carries updatedAt: new Date().
ExternalWrite(doc) ==
  /\ externals < MaxExternal
  /\ externals' = externals + 1
  /\ writes' = writes + 1
  /\ remoteDoc' = IF doc = Null THEN Null ELSE With(doc, "updatedAt", [ts |-> now])
  /\ inbox' = Notify(remoteDoc')
  /\ UNCHANGED <<isFirebaseConfigured, now, nextId, phase, state, closure, cache,
                 timer, inflight, subscribed, isFirstLoad, ops>>

\* ------------------------------------------------------ store mutations
\* A mutation callback of the last render: it reads closure[c].board, returns
\* at once when that is null, and else hands its new board to updateBoard.
CanCall(c) == phase[c] = "mounted" /\ ops[c] < MaxOps

FreshId == "id-" \o ToString(nextId + 1)

\* Variant: a callback called before the board is loaded starts from the
\* default board instead of returning.
MutationSeedsUnloaded(c, newBoard, idsUsed, selected) ==
  /\ CanCall(c)
  /\ IF closure[c].board = Null THEN updateBoard(c, createDefaultBoard(now), 0, selected)
     ELSE updateBoard(c, newBoard, idsUsed, selected)

Mutation(c, newBoard, idsUsed, selected) ==
  /\ CanCall(c)
  /\ IF closure[c].board = Null THEN UNCHANGED vars
     ELSE updateBoard(c, newBoard, idsUsed, selected)

addTask(c, taskData) ==
  Mutation(c, addTaskBoard(closure[c].board, taskData, FreshId, now), 1,
           state[c].selectedTaskId)

\* updateTask takes a fresh id only when it creates a timeframe.
CreatesTimeframe(board, updates) ==
  /\ board # Null
  /\ SetsDueDate(updates)
  /\ findTimeframeForDate(updates.dueDate, board.timeframes) = NoId

updateTask(c, id, updates) ==
  Mutation(c, updateTaskBoard(closure[c].board, id, updates, FreshId, now),
           IF CreatesTimeframe(closure[c].board, updates) THEN 1 ELSE 0,
           state[c].selectedTaskId)

\* deleteTask also clears the selection when the closure's selected task is
\* the deleted one.
deleteTask(c, id) ==
  Mutation(c, deleteTaskBoard(closure[c].board, id), 0,
           IF closure[c].selectedTaskId = id THEN NoId ELSE state[c].selectedTaskId)

moveTask(c, taskId, categoryId, timeframeId) ==
  Mutation(c, moveTaskBoard(closure[c].board, taskId, categoryId, timeframeId, now), 0,
           state[c].selectedTaskId)

addCategory(c, name) ==
  Mutation(c, addCategoryBoard(closure[c].board, name, FreshId), 1,
           state[c].selectedTaskId)

updateCategory(c, id, updates) ==
  Mutation(c, updateCategoryBoard(closure[c].board, id, updates), 0,
           state[c].selectedTaskId)

deleteCategory(c, id) ==
  Mutation(c, deleteCategoryBoard(closure[c].board, id), 0, state[c].selectedTaskId)

addTimeframe(c, name) ==
  Mutation(c, addTimeframeBoard(closure[c].board, name, FreshId), 1,
           state[c].selectedTaskId)

updateTimeframe(c, id, updates) ==
  Mutation(c, updateTimeframeBoard(closure[c].board, id, updates), 0,
           state[c].selectedTaskId)

deleteTimeframe(c, id) ==
  Mutation(c, deleteTimeframeBoard(closure[c].board, id), 0, state[c].selectedTaskId)

reorderTimeframes(c, timeframes) ==
  Mutation(c, reorderTimeframesBoard(closure[c].board, timeframes), 0,
           state[c].selectedTaskId)

ReorderIfAny(c, updated) == updated # Null /\ reorderTimeframes(c, updated)

\* The move-left / move-right buttons of a column header.
MoveTimeframe(c, id, left) ==
  /\ closure[c].board # Null
  /\ ReorderIfAny(c, IF left THEN handleMoveTimeframeLeft(closure[c].board, id)
                     ELSE handleMoveTimeframeRight(closure[c].board, id))

addChecklistItem(c, taskId, title) ==
  Mutation(c, addChecklistItemBoard(closure[c].board, taskId, title, FreshId, now), 1,
           state[c].selectedTaskId)

updateChecklistItem(c, taskId, itemId, updates) ==
  Mutation(c, updateChecklistItemBoard(closure[c].board, taskId, itemId, updates, now), 0,
           state[c].selectedTaskId)

deleteChecklistItem(c, taskId, itemId) ==
  Mutation(c, deleteChecklistItemBoard(closure[c].board, taskId, itemId, now), 0,
           state[c].selectedTaskId)

selectTask(c, taskId) ==
  /\ phase[c] = "mounted"
  /\ state' = Dispatch(c, [state[c] EXCEPT !.selectedTaskId = taskId])
  /\ UNCHANGED <<isFirebaseConfigured, now, remoteDoc, externals, writes, nextId, phase,
                 closure, cache, timer, inflight, inbox, subscribed, isFirstLoad, ops>>

\* ------------------------------------------------------ mutation inputs
\* The ids a caller can name: those on the board its closure holds, and a
\* stale one.
IdsOf(board, field) ==
  IF board = Null THEN {"gone"}
  ELSE {board[field][i].id : i \in 1..Len(board[field])} \cup {"gone"}

NewTaskData ==
  [title |-> "Cake", notes |-> "", status |-> "not_started", assignee |-> "unassigned",
   priority |-> "normal", categoryId |-> "cat-venue", timeframeId |-> "tf-post",
   dueDate |-> NoDate, checklist |-> <<>>]

TaskUpdates == {[status |-> "in_progress"], [dueDate |-> 20260203]}

StoreCall(c) ==
  LET board == closure[c].board
  IN  \/ addTask(c, NewTaskData)
      \/ \E id \in IdsOf(board, "tasks"), updates \in TaskUpdates :
           updateTask(c, id, updates)
      \/ \E id \in IdsOf(board, "tasks") : deleteTask(c, id)
      \/ \E id \in IdsOf(board, "tasks") : moveTask(c, id, "cat-food", "tf-post")
      \/ addCategory(c, "Music")
      \/ \E id \in IdsOf(board, "categories") : updateCategory(c, id, [name |-> "Renamed"])
      \/ \E id \in IdsOf(board, "categories") : deleteCategory(c, id)
      \/ addTimeframe(c, "Jun 1-7")
      \/ \E id \in IdsOf(board, "timeframes") : updateTimeframe(c, id, [hidden |-> TRUE])
      \/ \E id \in IdsOf(board, "timeframes") : deleteTimeframe(c, id)
      \/ \E id \in IdsOf(board, "timeframes"), left \in BOOLEAN : MoveTimeframe(c, id, left)
      \/ \E id \in IdsOf(board, "tasks") : addChecklistItem(c, id, "Deposit")
      \/ \E id \in IdsOf(board, "tasks") :
           updateChecklistItem(c, id, "id-1", [completed |-> TRUE])
      \/ \E id \in IdsOf(board, "tasks") : deleteChecklistItem(c, id, "id-1")
      \/ \E id \in IdsOf(board, "tasks") \ {"gone"} : selectTask(c, id)

\* The store calls of the synchronization runs: one that adds, one that
\* changes (and may create a timeframe).
SyncCall(c) ==
  \/ addTask(c, NewTaskData)
  \/ \E id \in IdsOf(closure[c].board, "tasks") \ {"gone"} :
       updateTask(c, id, [dueDate |-> 20260203])

\* ------------------------------------------------------------------- Next
\* A browser with Firebase configured, next to another writer.
Next ==
  \/ \E c \in Clients : Mount(c)
  \/ \E c \in Clients : MountThrows(c)
  \/ \E c \in Clients : SnapshotDelivered(c)
  \/ \E c \in Clients : SubscriptionError(c)
  \/ \E c \in Clients : TimerFires(c)
  \/ \E c \in Clients : WriteSucceeds(c)
  \/ \E c \in Clients : WriteFails(c)
  \/ \E c \in Clients : Render(c)
  \/ \E c \in Clients : Unmount(c)
  \/ \E c \in Clients : SyncCall(c)
  \/ \E doc \in ExternalDocs : ExternalWrite(doc)
  \/ Tick

Spec == Init /\ [][Next]_vars

\* A browser without Firebase configuration: every store call, no remote.
InitOffline ==
  /\ InitCommon
  /\ now = 0
  /\ isFirebaseConfigured = FALSE
  /\ remoteDoc \in InitialRemoteDocs
  /\ phase = [c \in Clients |-> IF c = "A" THEN "init" ELSE "absent"]
  /\ \E cached \in InitialCaches :
       cache = [c \in Clients |-> IF c = "A" THEN cached ELSE Null]

NextOffline ==
  \/ \E c \in Clients : Mount(c)
  \/ \E c \in Clients : Render(c)
  \/ \E c \in Clients : Unmount(c)
  \/ \E c \in Clients : StoreCall(c)
  \/ \E doc \in ExternalDocs : ExternalWrite(doc)
  \/ Tick

SpecOffline == InitOffline /\ [][NextOffline]_vars

\* Two browsers on the same document, each changing a task of its own.
EditedTask == [c \in Clients |-> IF c = "A" THEN "task-a" ELSE "task-b"]

EditedStatus == [c \in Clients |-> IF c = "A" THEN "in_progress" ELSE "completed"]

TwoCall(c) ==
  /\ ops[c] < MaxEdits
  /\ updateTask(c, EditedTask[c], [status |-> EditedStatus[c]])

InitTwo ==
  /\ InitCommon
  /\ now = 0
  /\ isFirebaseConfigured = TRUE
  /\ remoteDoc = FirestoreDoc(PlannerBoard)
  /\ phase = [c \in Clients |-> "init"]
  /\ cache = [c \in Clients |-> Null]

NextTwo ==
  \/ \E c \in Clients : Mount(c)
  \/ \E c \in Clients : SnapshotDelivered(c)
  \/ \E c \in Clients : TimerFires(c)
  \/ \E c \in Clients : WriteSucceeds(c)
  \/ \E c \in Clients : WriteFails(c)
  \/ \E c \in Clients : Render(c)
  \/ \E c \in Clients : TwoCall(c)
  \/ Tick

SpecTwo == InitTwo /\ [][NextTwo]_vars

\* One browser and its store, within a debounce quantum of its start: every
\* store call, with every id its caller can name, on the seed board or on a
\* board in use.
DueUpdates ==
  {[status |-> "in_progress"],
   [dueDate |-> 20260203],
   [dueDate |-> 20260110, timeframeId |-> "tf-mar1"],
   [dueDate |-> 20260215],
   [dueDate |-> 20260704],
   [dueDate |-> NoDate, timeframeId |-> "tf-mar1"]}

BoardCall(c) ==
  LET board == closure[c].board
      tasks == IdsOf(board, "tasks")
      categories == IdsOf(board, "categories")
      timeframes == IdsOf(board, "timeframes")
  IN  \/ \E cat \in categories, tf \in timeframes :
           addTask(c, [NewTaskData EXCEPT !.categoryId = cat, !.timeframeId = tf])
      \/ \E id \in tasks, updates \in DueUpdates : updateTask(c, id, updates)
      \/ \E id \in tasks : deleteTask(c, id)
      \/ \E id \in tasks, tf \in timeframes : moveTask(c, id, "cat-food", tf)
      \/ addCategory(c, "Music")
      \/ \E id \in categories : updateCategory(c, id, [name |-> "Renamed"])
      \/ \E id \in categories : deleteCategory(c, id)
      \/ addTimeframe(c, "Jun 1-7")
      \/ \E id \in timeframes : updateTimeframe(c, id, [hidden |-> TRUE])
      \/ \E id \in timeframes : deleteTimeframe(c, id)
      \/ \E id \in timeframes, left \in BOOLEAN : MoveTimeframe(c, id, left)
      \/ \E id \in tasks : addChecklistItem(c, id, "Deposit")
      \/ \E id \in tasks : updateChecklistItem(c, id, "id-1", [completed |-> TRUE])
      \/ \E id \in tasks : deleteChecklistItem(c, id, "id-1")
      \/ selectTask(c, "gone")

\* The documents were written earlier (at 0); this session starts a tick later.
InitStore ==
  /\ InitCommon
  /\ now = TickMs
  /\ isFirebaseConfigured = TRUE
  /\ remoteDoc \in {Null, FirestoreDoc(PlannerBoard)}
  /\ phase = [c \in Clients |-> IF c = "A" THEN "init" ELSE "absent"]
  /\ cache = [c \in Clients |-> Null]

NextStore ==
  \/ \E c \in Clients : Mount(c)
  \/ \E c \in Clients : SnapshotDelivered(c)
  \/ \E c \in Clients : Render(c)
  \/ \E c \in Clients : BoardCall(c)

SpecStore == InitStore /\ [][NextStore]_vars

\* Startup alone, with or without Firebase configuration: the init effect,
\* the listener's callbacks, re-renders, teardown and another writer.
InitLoad ==
  /\ InitCommon
  /\ now = 0
  /\ isFirebaseConfigured \in BOOLEAN
  /\ remoteDoc \in InitialRemoteDocs
  /\ phase = [c \in Clients |-> IF c = "A" THEN "init" ELSE "absent"]
  /\ \E cached \in InitialCaches :
       cache = [c \in Clients |-> IF c = "A" THEN cached ELSE Null]

NextLoad ==
  \/ \E c \in Clients : Mount(c)
  \/ \E c \in Clients : MountThrows(c)
  \/ \E c \in Clients : SnapshotDelivered(c)
  \/ \E c \in Clients : SubscriptionError(c)
  \/ \E c \in Clients : Render(c)
  \/ \E c \in Clients : Unmount(c)
  \/ \E doc \in ExternalDocs : ExternalWrite(doc)
  \/ Tick

SpecLoad == InitLoad /\ [][NextLoad]_vars

\* Fairness is stated on the scheduling alone.  The init effect is due while
\* the provider is in its first render, whichever branch it then takes; the
\* listener is due to hand over a snapshot while it holds one and the
\* provider is rendered.  These are the enabling conditions of Mount /
\* MountThrows and of SnapshotDelivered, and no other action makes such steps.
EffectRuns(c) == phase[c] = "init" /\ phase' = [phase EXCEPT ![c] = "mounted"]

ListenerDelivers(c) ==
  /\ Flushed(c)
  /\ subscribed[c]
  /\ inbox[c] # <<>>
  /\ inbox' = [inbox EXCEPT ![c] = Tail(inbox[c])]
  /\ UNCHANGED subscribed

\* The init effect runs after the first render, React re-renders after a
\* state change, and an attached listener hands over the snapshots it holds:
\* none of the three is postponed forever.
FairLoad ==
  /\ SpecLoad
  /\ \A c \in Clients : WF_phase(EffectRuns(c))
  /\ \A c \in Clients : WF_vars(Render(c))
  /\ \A c \in Clients : WF_<<inbox, subscribed>>(ListenerDelivers(c))

\* One browser with Firebase configured, no other writer and no failure:
\* every save is stored and the listener stays attached.
NextSync ==
  \/ \E c \in Clients : Mount(c)
  \/ \E c \in Clients : SnapshotDelivered(c)
  \/ \E c \in Clients : TimerFires(c)
  \/ \E c \in Clients : WriteSucceeds(c)
  \/ \E c \in Clients : Render(c)
  \/ \E c \in Clients : SyncCall(c)
  \/ Tick

SpecSync == Init /\ [][NextSync]_vars

\* setDoc settles: the oldest save in flight is stored.  This is the enabling
\* condition of WriteSucceeds, and only WriteSucceeds makes such a step.
SaveSettles(c) ==
  /\ Flushed(c)
  /\ inflight[c] # <<>>
  /\ inflight' = [inflight EXCEPT ![c] = Tail(@)]
  /\ writes' = writes + 1

\* Time passes, a due timeout runs, a started save settles, and the init
\* effect, the re-render and the listener are not postponed forever.
FairSync ==
  /\ SpecSync
  /\ WF_vars(Tick)
  /\ \A c \in Clients : WF_phase(EffectRuns(c))
  /\ \A c \in Clients : WF_vars(Render(c))
  /\ \A c \in Clients : WF_<<inbox, subscribed>>(ListenerDelivers(c))
  /\ \A c \in Clients : WF_vars(TimerFires(c))
  /\ \A c \in Clients : WF_<<inflight, writes>>(SaveSettles(c))

\* The store with the calls that bear on the lookup of a column for a date:
\* due-date edits (DueUpdates), and the rename of a column from its header
\* (TimeframeHeader.handleSave), here to a name of the legacy table.
LookupCall(c) ==
  LET board == closure[c].board
  IN  \/ \E id \in IdsOf(board, "tasks"), updates \in DueUpdates : updateTask(c, id, updates)
      \/ \E id \in IdsOf(board, "timeframes") :
           updateTimeframe(c, id, [name |-> "Post-Wedding"])

NextLookup ==
  \/ \E c \in Clients : Mount(c)
  \/ \E c \in Clients : SnapshotDelivered(c)
  \/ \E c \in Clients : Render(c)
  \/ \E c \in Clients : LookupCall(c)

SpecLookup == InitStore /\ [][NextLookup]_vars

\* One configured browser whose user adds columns by name and schedules
\* tasks; the saves go through and come back by the listener, which loads
\* them as any other snapshot.
NewColumnNames == {"Feb 21-15", "Jun 1-7"}

NameCall(c) ==
  \/ \E name \in NewColumnNames : addTimeframe(c, name)
  \/ \E id \in IdsOf(closure[c].board, "tasks") \ {"gone"} :
       updateTask(c, id, [dueDate |-> 20260215])

NextNames ==
  \/ \E c \in Clients : Mount(c)
  \/ \E c \in Clients : SnapshotDelivered(c)
  \/ \E c \in Clients : TimerFires(c)
  \/ \E c \in Clients : WriteSucceeds(c)
  \/ \E c \in Clients : Render(c)
  \/ \E c \in Clients : NameCall(c)
  \/ Tick

SpecNames == Init /\ [][NextNames]_vars

\* Documents as other writers left them.  BareDoc: a document without its
\* three lists.  CliDoc: a task the command-line tool updated with a status
\* outside the enum and an empty priority.
BareDoc == [createdAt |-> [iso |-> 0], updatedAt |-> [iso |-> 0]]

CliDoc ==
  [categories |-> <<[id |-> "cat-venue", name |-> "Venue", order |-> OrdInt(0)]>>,
   timeframes |-> <<[id |-> "tf-may8", name |-> "May 8", order |-> OrdInt(2)]>>,
   tasks |-> <<[id |-> "task-cli", title |-> "Rehearsal", categoryId |-> "cat-venue",
                timeframeId |-> "tf-may8", status |-> "bogus", priority |-> "",
                notes |-> "call first", dueDate |-> [iso |-> 20260508],
                createdAt |-> [iso |-> 0], updatedAt |-> [iso |-> 0]]>>,
   createdAt |-> [iso |-> 0], updatedAt |-> [iso |-> 0]]

ReadDocs == {ScriptDoc, BareDoc, CliDoc}

\* Startup and later snapshots over such documents, in the remote document
\* and in the cache, with or without Firebase configuration.
InitRead ==
  /\ InitCommon
  /\ now = 0
  /\ isFirebaseConfigured \in BOOLEAN
  /\ remoteDoc \in {Null} \cup ReadDocs
  /\ phase = [c \in Clients |-> IF c = "A" THEN "init" ELSE "absent"]
  /\ \E cached \in {Null} \cup ReadDocs :
       cache = [c \in Clients |-> IF c = "A" THEN cached ELSE Null]

NextRead ==
  \/ \E c \in Clients : Mount(c)
  \/ \E c \in Clients : SnapshotDelivered(c)
  \/ \E c \in Clients : SubscriptionError(c)
  \/ \E c \in Clients : Render(c)
  \/ \E doc \in ReadDocs : ExternalWrite(doc)
  \/ Tick

SpecRead == InitRead /\ [][NextRead]_vars

\* One browser, configured or not, whose listener can fail and whose saves
\* can fail, with the calls of the synchronization runs.
NextOutage ==
  \/ \E c \in Clients : Mount(c)
  \/ \E c \in Clients : SnapshotDelivered(c)
  \/ \E c \in Clients : SubscriptionError(c)
  \/ \E c \in Clients : TimerFires(c)
  \/ \E c \in Clients : WriteSucceeds(c)
  \/ \E c \in Clients : WriteFails(c)
  \/ \E c \in Clients : Render(c)
  \/ \E c \in Clients : SyncCall(c)
  \/ Tick

SpecOutage == InitLoad /\ [][NextOutage]_vars

\* A started save settles one way or the other: the enabling condition of
\* WriteSucceeds and WriteFails, and only they make such a step.
AnySaveSettles(c) ==
  /\ Flushed(c)
  /\ inflight[c] # <<>>
  /\ inflight' = [inflight EXCEPT ![c] = Tail(@)]

\* Time passes, a due timeout runs, a started save settles and the provider
\* re-renders.  Nothing is assumed about the listener.
FairOutage ==
  /\ SpecOutage
  /\ WF_vars(Tick)
  /\ \A c \in Clients : WF_vars(Render(c))
  /\ \A c \in Clients : WF_vars(TimerFires(c))
  /\ \A c \in Clients : WF_inflight(AnySaveSettles(c))

\* One configured browser and no other writer, each store call made from an
\* event handler of its own, that is, by callbacks of the current render.
EchoCall(c) ==
  /\ Rendered(c)
  /\ SyncCall(c)

NextEcho ==
  \/ \E c \in Clients : Mount(c)
  \/ \E c \in Clients : SnapshotDelivered(c)
  \/ \E c \in Clients : TimerFires(c)
  \/ \E c \in Clients : WriteSucceeds(c)
  \/ \E c \in Clients : Render(c)
  \/ \E c \in Clients : EchoCall(c)
  \/ Tick

SpecEcho == Init /\ [][NextEcho]_vars

\* Two browsers on the same document whose saves are all stored and whose
\* listeners stay attached.
NextPair ==
  \/ \E c \in Clients : Mount(c)
  \/ \E c \in Clients : SnapshotDelivered(c)
  \/ \E c \in Clients : TimerFires(c)
  \/ \E c \in Clients : WriteSucceeds(c)
  \/ \E c \in Clients : Render(c)
  \/ \E c \in Clients : TwoCall(c)
  \/ Tick

SpecPair == InitTwo /\ [][NextPair]_vars

\* Time passes, a due timeout runs, a started save settles, and the init
\* effect, the re-render and the listener are not postponed forever.
FairPair ==
  /\ SpecPair
  /\ WF_vars(Tick)
  /\ \A c \in Clients : WF_phase(EffectRuns(c))
  /\ \A c \in Clients : WF_vars(Render(c))
  /\ \A c \in Clients : WF_<<inbox, subscribed>>(ListenerDelivers(c))
  /\ \A c \in Clients : WF_vars(TimerFires(c))
  /\ \A c \in Clients : WF_<<inflight, writes>>(SaveSettles(c))

\* ============================================================== properties
\* Steps, as the properties below recognise them.
\* A mutation reached updateBoard.
IsMutation(c) == ops'[c] = ops[c] + 1

\* The listener handed its next snapshot to the callback.
IsDelivery(c) ==
  /\ subscribed[c] /\ subscribed'[c]
  /\ inbox[c] # <<>>
  /\ inbox'[c] = Tail(inbox[c])

\* A saveBoard call of the given kind started.
WriteStarted(c, kind) ==
  /\ Len(inflight'[c]) = Len(inflight[c]) + 1
  /\ inflight'[c][Len(inflight'[c])].kind = kind

\* The oldest saveBoard call settled: stored by setDoc, or rejected.
WriteCommitted(c) ==
  inflight[c] # <<>> /\ inflight'[c] = Tail(inflight[c]) /\ writes' = writes + 1

WriteFailed(c) ==
  inflight[c] # <<>> /\ inflight'[c] = Tail(inflight[c]) /\ writes' = writes

HasTask(board, id) == \E i \in DOMAIN board.tasks : board.tasks[i].id = id

\* C1 - debounce coalescing.  Every mutation replaces the pending timer by one
\* that holds the board the mutation produced and runs the full quantum; a
\* pending timer keeps its board until the next mutation; a debounced remote
\* write starts only from a timer whose quantum has fully elapsed, carries
\* that timer's board and leaves no timer behind.  So a burst of mutations,
\* each within a quantum of the previous one, starts exactly one write, a
\* quantum after the last mutation, with the last mutation's board.
DebounceCoalescing ==
  [][\A c \in Clients :
       /\ IsMutation(c) =>
            timer'[c] = [board |-> state'[c].board, remaining |-> FIREBASE_DEBOUNCE_MS]
       /\ (~IsMutation(c) /\ timer'[c] # NoTimer) =>
            /\ timer[c] # NoTimer
            /\ timer'[c].board = timer[c].board
            /\ timer'[c].remaining <= timer[c].remaining
       /\ WriteStarted(c, "debounced") =>
            /\ ~IsMutation(c)
            /\ timer[c] # NoTimer
            /\ timer[c].remaining = 0
            /\ inflight'[c] = Append(inflight[c],
                                     [board |-> timer[c].board, kind |-> "debounced"])
            /\ timer'[c] = NoTimer]_vars

\* Two mutations 150 ms apart, and since then one debounced write in flight,
\* carrying the board of the second; the remote document was never written.
BurstCoalesced ==
  /\ ops["A"] = 2
  /\ writes = 0
  /\ timer["A"] = NoTimer
  /\ inflight["A"] = <<[board |-> state["A"].board, kind |-> "debounced"]>>
  /\ \E i, j \in DOMAIN state["A"].board.tasks :
       /\ state["A"].board.tasks[i].id = "id-1"
       /\ state["A"].board.tasks[i].createdAt = 0
       /\ state["A"].board.tasks[j].id = "id-2"
       /\ state["A"].board.tasks[j].createdAt = TickMs

\* C2 - accepted race.  A snapshot delivered while a debounce timer is
\* pending leaves the timer and its board as they are; the write the timer
\* starts carries the board the timer was armed with, whatever was adopted
\* since; and a write that is stored replaces the whole remote document by its
\* payload.
AcceptedRace ==
  [][\A c \in Clients :
       /\ (IsDelivery(c) /\ timer[c] # NoTimer) => timer'[c] = timer[c]
       /\ WriteStarted(c, "debounced") =>
            inflight'[c][Len(inflight'[c])].board = timer[c].board
       /\ WriteCommitted(c) => remoteDoc' = FirestoreDoc(Head(inflight[c]).board)]_vars

\* Another writer's document was adopted while a mutation's timer was
\* pending; the timer has fired since (the status is syncing) and its write,
\* on its way to replace that document, carries the older local board.
StaleWriteInFlight ==
  /\ externals = 1
  /\ state["A"].syncStatus = "syncing"
  /\ state["A"].board # Null
  /\ HasTask(state["A"].board, "task-script")
  /\ remoteDoc # Null
  /\ HasTask(remoteDoc, "task-script")
  /\ Len(inflight["A"]) = 1
  /\ inflight["A"][1].kind = "debounced"
  /\ HasTask(inflight["A"][1].board, "id-1")
  /\ ~HasTask(inflight["A"][1].board, "task-script")

FailedWriteKeepsLocal ==
  [][\A c \in Clients :
       /\ (/\ WriteFailed(c)
           /\ Head(inflight[c]).kind = "debounced"
           /\ phase[c] = "mounted") =>
            /\ state'[c] = [state[c] EXCEPT !.syncStatus = "error"]
            /\ cache'[c] = cache[c]
       /\ (IsMutation(c) /\ state[c].syncStatus = "error") =>
            /\ state'[c].board = timer'[c].board
            /\ state'[c].board.updatedAt = now
            /\ cache'[c] = JSONStringify(state'[c].board)]_vars

\* The status is error, no save is in flight, and a board that is not the
\* remote document is in memory, in the cache and scheduled for a new save.
ErrorKeepsEditing ==
  /\ state["A"].syncStatus = "error"
  /\ inflight["A"] = <<>>
  /\ timer["A"] # NoTimer
  /\ timer["A"].board = state["A"].board
  /\ cache["A"] = JSONStringify(state["A"].board)
  /\ remoteDoc # FirestoreDoc(state["A"].board)

\* C6, as stated - every mutation leaves the status syncing and a timer
\* pending.
MutationSetsSyncing ==
  [][\A c \in Clients :
       IsMutation(c) => (state'[c].syncStatus = "syncing" /\ timer'[c] # NoTimer)]_vars

\* C6, amended - a mutation leaves the status as it was and one timer
\* pending for the full quantum; the status of the mounted store becomes
\* syncing when the timer fires and its save starts.
MutationKeepsStatus ==
  [][\A c \in Clients :
       /\ IsMutation(c) =>
            /\ state'[c].syncStatus = state[c].syncStatus
            /\ timer'[c] # NoTimer
            /\ timer'[c].remaining = FIREBASE_DEBOUNCE_MS
       /\ (WriteStarted(c, "debounced") /\ phase[c] = "mounted") =>
            state'[c].syncStatus = "syncing"]_vars

\* A mutation's timer is pending and the status still reads synced.
SyncedWithPendingTimer ==
  /\ ops["A"] >= 1
  /\ timer["A"] # NoTimer
  /\ timer["A"].board = state["A"].board
  /\ state["A"].syncStatus = "synced"

TeardownCancels ==
  [][\A c \in Clients :
       /\ phase'[c] = "unmounted" =>
            /\ timer'[c] = NoTimer
            /\ ~subscribed'[c]
            /\ inbox'[c] = <<>>
       /\ phase[c] = "unmounted" =>
            /\ state'[c] = state[c]
            /\ cache'[c] = cache[c]
            /\ Len(inflight'[c]) <= Len(inflight[c])]_vars

\* The store was torn down with a mutation's timer pending: long after, the
\* status still reads synced and the mutation's board, in memory and in the
\* cache, never went to the remote document.
TornDownBeforeSave ==
  /\ phase["A"] = "unmounted"
  /\ ops["A"] = 1
  /\ now = MaxTicks * TickMs
  /\ state["A"].syncStatus = "synced"
  /\ inflight["A"] = <<>>
  /\ timer["A"] = NoTimer
  /\ HasTask(state["A"].board, "id-1")
  /\ cache["A"] = JSONStringify(state["A"].board)
  /\ externals = 0
  /\ writes = 0

\* C11 - no independent retry.  A rejected save arms no timer and starts no
\* save; a timer comes into being only by a mutation; a debounced save starts
\* only from an expired timer, and the initial save only at the first
\* snapshot, before any mutation and with no save in flight.  So once a save
\* has failed and no mutation's timer is pending, no save starts until the
\* next mutation, whose timer carries the board in memory, failed changes
\* included.
NoIndependentRetry ==
  [][\A c \in Clients :
       /\ WriteFailed(c) =>
            /\ timer'[c] = timer[c]
            /\ inflight'[c] = Tail(inflight[c])
       /\ (timer[c] = NoTimer /\ ~IsMutation(c)) =>
            /\ timer'[c] = NoTimer
            /\ ~WriteStarted(c, "debounced")
       /\ WriteStarted(c, "initial") =>
            /\ isFirstLoad[c]
            /\ ops[c] = 0
            /\ inflight[c] = <<>>
       /\ (IsMutation(c) /\ state[c].syncStatus = "error") =>
            timer'[c] = [board |-> state'[c].board, remaining |-> FIREBASE_DEBOUNCE_MS]]_vars

\* A save failed and left the status at error; the timer of the second
\* mutation, holding the board with both changes, has run its full quantum
\* and is about to start the one save that carries the failed change again.
\* The remote document was never written.
FailedBoardRidesNextMutation ==
  /\ state["A"].syncStatus = "error"
  /\ ops["A"] = 2
  /\ writes = 0
  /\ inflight["A"] = <<>>
  /\ timer["A"] # NoTimer
  /\ timer["A"].remaining = 0
  /\ timer["A"].board = state["A"].board
  /\ HasTask(timer["A"].board, "id-1")

\* C12 - whole-document last-writer-wins.  The board in memory changes only
\* by adopting a delivered document as a whole or by a mutation applied to
\* the board the callbacks hold; the remote document changes only by a
\* stored save, which replaces it by that save's whole board.  The other
\* browser's change is in a mutation's board only if it was in the board the
\* mutation was applied to, so a save made without it removes it from the
\* remote document.
HasEdit(board, c) ==
  /\ board # Null
  /\ \E i \in DOMAIN board.tasks :
       board.tasks[i].id = EditedTask[c] /\ board.tasks[i].status = EditedStatus[c]

LastWriterWins ==
  [][/\ remoteDoc' # remoteDoc =>
          \E c \in Clients :
            WriteCommitted(c) /\ remoteDoc' = FirestoreDoc(Head(inflight[c]).board)
     /\ \A c \in Clients : \A o \in Clients \ {c} :
          /\ state'[c].board # state[c].board =>
               \/ /\ IsDelivery(c) /\ Head(inbox[c]) # Null
                  /\ state'[c].board = convertTimestamps(Head(inbox[c]), now)
               \/ /\ IsMutation(c)
                  /\ HasEdit(state'[c].board, c)
                  /\ HasEdit(state'[c].board, o) <=> HasEdit(closure[c].board, o)
          /\ (WriteCommitted(c) /\ ~HasEdit(Head(inflight[c]).board, o)) =>
               ~HasEdit(remoteDoc', o)]_vars

\* Both browsers changed their task and both saves were stored; the remote
\* document holds the last writer's change only, and the first writer, having
\* adopted that document, has lost its change in memory and in the cache too.
LostUpdate ==
  /\ ops = [c \in Clients |-> 1]
  /\ writes = 2
  /\ \A c \in Clients : timer[c] = NoTimer /\ inflight[c] = <<>> /\ inbox[c] = <<>>
  /\ HasEdit(remoteDoc, "B") /\ ~HasEdit(remoteDoc, "A")
  /\ ~HasEdit(state["A"].board, "A")
  /\ cache["A"] = JSONStringify(state["A"].board)
  /\ state["A"].board = state["B"].board

\* The ids of a list of entities, and the entities themselves.
IdSet(entities) == {entities[i].id : i \in DOMAIN entities}

Members(entities) == {entities[i] : i \in DOMAIN entities}

\* The tasks that reference id through field (categoryId or timeframeId).
Referencing(tasks, field, id) == {i \in DOMAIN tasks : tasks[i][field] = id}

\* board `new` is board `old` without the entity id of collection coll and
\* without the K tasks that reference it, and with nothing else changed.
Cascaded(old, new, coll, other, field, id) ==
  /\ id \notin IdSet(new[coll])
  /\ Len(new[coll]) = Len(old[coll]) - 1
  /\ \A i \in DOMAIN old[coll] : old[coll][i].id # id => old[coll][i] \in Members(new[coll])
  /\ new[other] = old[other]
  /\ Len(new.tasks) = Len(old.tasks) - Cardinality(Referencing(old.tasks, field, id))
  /\ Referencing(new.tasks, field, id) = {}
  /\ \A i \in DOMAIN old.tasks :
       old.tasks[i][field] # id => old.tasks[i] \in Members(new.tasks)

\* C13 - cascade deletion.  Whenever a mutation's board lacks a category or a
\* timeframe of the board the mutation was applied to, it lacks exactly that
\* entity and the K tasks referencing it, nothing else differs, and this one
\* board is what goes to memory, to the cache and to the pending remote write.
CascadeDeletion ==
  [][\A c \in Clients :
       IsMutation(c) =>
         /\ \A id \in IdSet(closure[c].board.categories) \ IdSet(state'[c].board.categories) :
              Cascaded(closure[c].board, state'[c].board,
                       "categories", "timeframes", "categoryId", id)
         /\ \A id \in IdSet(closure[c].board.timeframes) \ IdSet(state'[c].board.timeframes) :
              Cascaded(closure[c].board, state'[c].board,
                       "timeframes", "categories", "timeframeId", id)
         /\ cache'[c] = JSONStringify(state'[c].board)
         /\ timer'[c] # NoTimer
         /\ timer'[c].board = state'[c].board]_vars

\* One call removed the category that held two of the three tasks: the
\* category and both tasks are gone, the third task and both columns remain.
CategoryCascaded ==
  /\ ops["A"] = 1
  /\ state["A"].board # Null
  /\ IdSet(state["A"].board.categories) = {"cat-food"}
  /\ IdSet(state["A"].board.tasks) = {"task-c"}
  /\ IdSet(state["A"].board.timeframes) = {"tf-feb1", "tf-mar1"}
  /\ cache["A"] = JSONStringify(state["A"].board)
  /\ timer["A"] # NoTimer
  /\ timer["A"].board = state["A"].board

\* The timeframe holds the date: by its metadata, or by the legacy range of
\* its name (the two passes of findTimeframeForDate).
HoldsDate(tf, date) ==
  isDateInTimeframe(date, tf) \/ InLegacyRange(date, LegacyRange(tf.name))

\* Every scheduled task sits in a timeframe of the board that holds its date.
DueDatesResolved(board) ==
  \A i \in DOMAIN board.tasks :
    board.tasks[i].dueDate # NoDate =>
      \E j \in DOMAIN board.timeframes :
        /\ board.timeframes[j].id = board.tasks[i].timeframeId
        /\ HoldsDate(board.timeframes[j], board.tasks[i].dueDate)

\* C14 - the due-date invariant.  A mutation applied to a board in which every
\* scheduled task sits in a timeframe holding its due date yields such a
\* board again.
DueDateInvariant ==
  [][\A c \in Clients :
       (IsMutation(c) /\ DueDatesResolved(closure[c].board)) =>
          DueDatesResolved(state'[c].board)]_vars

\* The task with the given id.
TaskOf(board, id) == board.tasks[CHOOSE i \in DOMAIN board.tasks : board.tasks[i].id = id]

\* The calendar month of a day: its first and last day and its label.
DaysOfMonth(y, m) ==
  IF m = 2 THEN (IF (y % 4 = 0 /\ y % 100 # 0) \/ y % 400 = 0 THEN 29 ELSE 28)
  ELSE IF m \in {4, 6, 9, 11} THEN 30 ELSE 31

FirstOfMonth(d) == (d \div 100) * 100 + 1

LastOfMonth(d) == (d \div 100) * 100 + DaysOfMonth(d \div 10000, (d \div 100) % 100)

MonthLabel(d) == SHORT_MONTHS[(d \div 100) % 100] \o " " \o ToString(d \div 10000)

\* The first timeframe of the list that holds the date, if any.
FirstHolding(timeframes, date) ==
  LET holding == {j \in DOMAIN timeframes : HoldsDate(timeframes[j], date)}
  IN  IF holding = {} THEN 0 ELSE CHOOSE j \in holding : \A k \in holding : j <= k

\* What updateTask(id, updates) with a non-null due date makes of board old.
Rescheduled(old, new, id, date) ==
  IF FirstHolding(old.timeframes, date) # 0
  THEN /\ new.timeframes = old.timeframes
       /\ id \in IdSet(old.tasks) =>
            TaskOf(new, id).timeframeId = old.timeframes[FirstHolding(old.timeframes, date)].id
  ELSE /\ Len(new.timeframes) = Len(old.timeframes) + 1
       /\ SubSeq(new.timeframes, 1, Len(old.timeframes)) = old.timeframes
       /\ new.timeframes[Len(new.timeframes)].id \notin IdSet(old.timeframes)
       /\ new.timeframes[Len(new.timeframes)].startDate = FirstOfMonth(date)
       /\ new.timeframes[Len(new.timeframes)].endDate = LastOfMonth(date)
       /\ new.timeframes[Len(new.timeframes)].name = MonthLabel(date)
       /\ id \in IdSet(old.tasks) =>
            TaskOf(new, id).timeframeId = new.timeframes[Len(new.timeframes)].id

\* What updateTask(id, updates) without a due date makes of board old.
NotRescheduled(old, new, id, updates) ==
  /\ new.timeframes = old.timeframes
  /\ id \in IdSet(old.tasks) =>
       TaskOf(new, id).timeframeId =
         (IF "timeframeId" \in DOMAIN updates THEN updates.timeframeId
          ELSE TaskOf(old, id).timeframeId)

\* C15 - the special rule of updateTask.  With a non-null due date the task
\* goes to the first timeframe holding the date, whatever timeframeId was
\* passed; when none holds it, one timeframe for the calendar month of the
\* date is appended and the task goes there.  Without a due date (no key, or
\* null) the timeframes stay and the timeframeId changes only to a passed one.
UpdateTaskRule ==
  [][\A c \in Clients :
       IsMutation(c) =>
       \A id \in IdsOf(closure[c].board, "tasks"), updates \in DueUpdates :
         updateTask(c, id, updates) =>
           /\ state'[c].board.categories = closure[c].board.categories
           /\ Len(state'[c].board.tasks) = Len(closure[c].board.tasks)
           /\ IF "dueDate" \in DOMAIN updates /\ updates.dueDate # NoDate
              THEN Rescheduled(closure[c].board, state'[c].board, id, updates.dueDate)
              ELSE NotRescheduled(closure[c].board, state'[c].board, id, updates)]_vars

\* One call set task-a's due date to 10 January and passed the March column:
\* no column held the date, so "Jan 2026" (1 to 31 January) was appended and
\* the task sits there, not in the column passed.
TimeframeSynthesized ==
  /\ ops["A"] = 1
  /\ state["A"].board # Null
  /\ Len(state["A"].board.timeframes) = 3
  /\ state["A"].board.timeframes[3].name = "Jan 2026"
  /\ state["A"].board.timeframes[3].startDate = 20260101
  /\ state["A"].board.timeframes[3].endDate = 20260131
  /\ "task-a" \in IdSet(state["A"].board.tasks)
  /\ TaskOf(state["A"].board, "task-a").dueDate = 20260110
  /\ TaskOf(state["A"].board, "task-a").timeframeId = state["A"].board.timeframes[3].id
  /\ "tf-mar1" \in IdSet(state["A"].board.timeframes)

\* A step that is a call of one of the ten operations taking the id of an
\* existing entity, made with an id that no entity of the board has.
NotFoundCall(c) ==
  /\ closure[c].board # Null
  /\ \/ \E updates \in DueUpdates : updateTask(c, "gone", updates)
     \/ deleteTask(c, "gone")
     \/ \E tf \in IdsOf(closure[c].board, "timeframes") : moveTask(c, "gone", "cat-food", tf)
     \/ updateCategory(c, "gone", [name |-> "Renamed"])
     \/ deleteCategory(c, "gone")
     \/ updateTimeframe(c, "gone", [hidden |-> TRUE])
     \/ deleteTimeframe(c, "gone")
     \/ addChecklistItem(c, "gone", "Deposit")
     \/ updateChecklistItem(c, "gone", "id-1", [completed |-> TRUE])
     \/ deleteChecklistItem(c, "gone", "id-1")

\* C16 - NotFound no-op.  A call with an id that matches no entity leaves the
\* board (updatedAt included) as it is, writes nothing to the cache and
\* schedules no remote write.
NotFoundIsNoOp ==
  [][\A c \in Clients :
       NotFoundCall(c) =>
         /\ state'[c].board = state[c].board
         /\ cache'[c] = cache[c]
         /\ timer'[c] = timer[c]]_vars

\* A step that is a call of a store operation while the board is null (the
\* last render then saw no board either).
NotLoadedCall(c) ==
  /\ phase[c] = "mounted"
  /\ state[c].board = Null
  /\ BoardCall(c)

\* C17 - Not-loaded no-op, as stated: each of the fifteen operations, called
\* while the board is null, leaves the whole store state unchanged, writes
\* nothing to the cache and arms no timer.
NotLoadedChangesNothing ==
  [][\A c \in Clients :
       NotLoadedCall(c) =>
         /\ state'[c] = state[c]
         /\ cache'[c] = cache[c]
         /\ timer'[c] = timer[c]
         /\ inflight'[c] = inflight[c]]_vars

\* C17 - Not-loaded no-op, amended: a call made while the board is null
\* changes at most the selected task id (selectTask does, the fourteen board
\* operations change nothing); the board stays null, the loading flag and the
\* sync status keep their values, the cache is not written, no timer is armed
\* and no remote write starts.
NotLoadedKeepsBoard ==
  [][\A c \in Clients :
       NotLoadedCall(c) =>
         /\ state'[c] = [state[c] EXCEPT !.selectedTaskId = state'[c].selectedTaskId]
         /\ state'[c].selectedTaskId \in {state[c].selectedTaskId, "gone"}
         /\ state'[c].board = Null
         /\ cache'[c] = cache[c]
         /\ timer'[c] = timer[c]
         /\ inflight'[c] = inflight[c]
         /\ UNCHANGED <<remoteDoc, writes, nextId, ops>>]_vars

\* A task id was selected while the board was still loading, and nothing
\* else moved: no board, no cache entry, no timer, no write.
SelectedWhileLoading ==
  /\ phase["A"] = "mounted"
  /\ state["A"].board = Null
  /\ state["A"].loading
  /\ state["A"].selectedTaskId = "gone"
  /\ cache["A"] = Null
  /\ timer["A"] = NoTimer
  /\ inflight["A"] = <<>>
  /\ ops["A"] = 0

\* No two entities of the list share an order value.
OrdersDistinct(entities) ==
  \A i, j \in DOMAIN entities : i # j => entities[i].order # entities[j].order

\* A step that is a call of one of the operations that create, move or
\* delete a timeframe or a category, made with the id of an existing entity.
OrderCall(c) ==
  LET board == closure[c].board
  IN  \/ addTimeframe(c, "Jun 1-7")
      \/ \E id \in IdSet(board.tasks), updates \in DueUpdates :
           SetsDueDate(updates) /\ updateTask(c, id, updates)
      \/ \E id \in IdSet(board.timeframes), left \in BOOLEAN : MoveTimeframe(c, id, left)
      \/ \E id \in IdSet(board.timeframes) : deleteTimeframe(c, id)
      \/ addCategory(c, "Music")
      \/ \E id \in IdSet(board.categories) : deleteCategory(c, id)

\* C18 - Order uniqueness.  Applied to a board whose timeframe orders are
\* pairwise distinct and whose category orders are pairwise distinct,
\* addTimeframe, updateTask with a due date, move-left, move-right,
\* deleteTimeframe, addCategory and deleteCategory give a board with the same
\* two properties.
OrderUniqueness ==
  [][\A c \in Clients :
       /\ IsMutation(c)
       /\ OrdersDistinct(closure[c].board.timeframes)
       /\ OrdersDistinct(closure[c].board.categories)
       /\ OrderCall(c)
       => /\ OrdersDistinct(state'[c].board.timeframes)
          /\ OrdersDistinct(state'[c].board.categories)]_vars

\* Every task of the board references a category and a timeframe of the board.
RefsExist(board) ==
  \A i \in DOMAIN board.tasks :
    /\ board.tasks[i].categoryId \in IdSet(board.categories)
    /\ board.tasks[i].timeframeId \in IdSet(board.timeframes)

\* C19 - Referential integrity under store operations.  A store operation
\* applied to a board in which every task references an existing category
\* and an existing timeframe gives a board with the same property.
ReferentialIntegrity ==
  [][\A c \in Clients :
       IsMutation(c) /\ RefsExist(closure[c].board) => RefsExist(state'[c].board)]_vars

\* The 1-based position of timeframes[k] in the list sorted by order (equal
\* orders keep their array order), and the index of the entry at a position.
Position(timeframes, k) ==
  1 + Cardinality({j \in DOMAIN timeframes :
                     \/ OrdLess(timeframes[j].order, timeframes[k].order)
                     \/ timeframes[j].order = timeframes[k].order /\ j < k})

AtPosition(timeframes, p) == CHOOSE k \in DOMAIN timeframes : Position(timeframes, k) = p

Occurrences(timeframes, order) == Cardinality({j \in DOMAIN timeframes : timeframes[j].order = order})

\* board `new` is board `old` with the orders of the timeframes at indices k
\* and m exchanged and nothing else changed.
OrdersExchanged(old, new, k, m) ==
  /\ Len(new.timeframes) = Len(old.timeframes)
  /\ \A j \in DOMAIN old.timeframes :
       new.timeframes[j] =
         With(old.timeframes[j], "order",
              IF j = k THEN old.timeframes[m].order
              ELSE IF j = m THEN old.timeframes[k].order
              ELSE old.timeframes[j].order)
  /\ \A j \in DOMAIN old.timeframes :
       Occurrences(new.timeframes, old.timeframes[j].order)
         = Occurrences(old.timeframes, old.timeframes[j].order)
  /\ new.tasks = old.tasks
  /\ new.categories = old.categories

\* C20 - Column reorder is an adjacent swap.  A move-left (move-right) that
\* changes anything is the move of a timeframe of the board that is not at
\* the first (last) position of the order-sorted list, and it exchanges the
\* order of that timeframe with the order of the one before (after) it:
\* every other order, every id, name, date and hidden flag, the tasks and
\* the categories are unchanged.
AdjacentSwap ==
  [][\A c \in Clients :
       IsMutation(c) =>
         \A id \in IdsOf(closure[c].board, "timeframes"), left \in BOOLEAN :
           MoveTimeframe(c, id, left) =>
             LET old == closure[c].board
                 k == IndexOfId(old.timeframes, id)
             IN  /\ k >= 1
                 /\ LET n == Position(old.timeframes, k) + (IF left THEN -1 ELSE 1)
                    IN  /\ n \in 1..Len(old.timeframes)
                        /\ OrdersExchanged(old, state'[c].board, k,
                                           AtPosition(old.timeframes, n))]_vars

\* Mar 1-7 was moved left of Feb 1-7: the two columns exchanged their orders
\* and kept their names and dates, and the tasks are as they were.
ColumnsSwapped ==
  /\ ops["A"] = 1
  /\ state["A"].board # Null
  /\ state["A"].board.timeframes =
       << With(PlannerBoard.timeframes[1], "order", OrdInt(2)),
          With(PlannerBoard.timeframes[2], "order", OrdInt(1)) >>
  /\ state["A"].board.tasks = PlannerBoard.tasks
  /\ state["A"].board.categories = PlannerBoard.categories

\* The board read back after the board was written to the local cache.
Reloaded(board) == loadFromStorage(JSONStringify(board))

\* A date field of a timeframe that was set is kept; one that was missing
\* may have been filled.
KeptOrFilled(before, after, field) ==
  Get(before, field, NoDate) # NoDate => Get(after, field, NoDate) = before[field]

\* The reloaded timeframe is the stored one but for the date fields filled.
SameTimeframe(before, after) ==
  /\ \A f \in DOMAIN before \ {"startDate", "endDate"} : f \in DOMAIN after /\ after[f] = before[f]
  /\ DOMAIN after \subseteq DOMAIN before \cup {"startDate", "endDate"}
  /\ KeptOrFilled(before, after, "startDate")
  /\ KeptOrFilled(before, after, "endDate")

EquivalentBoards(before, after) ==
  /\ after # Null
  /\ after.tasks = before.tasks
  /\ after.categories = before.categories
  /\ after.createdAt = before.createdAt
  /\ after.updatedAt = before.updatedAt
  /\ Len(after.timeframes) = Len(before.timeframes)
  /\ \A i \in DOMAIN before.timeframes :
       SameTimeframe(before.timeframes[i], after.timeframes[i])

SubscriptionFailed(c) == subscribed[c] /\ ~subscribed'[c] /\ phase'[c] = "mounted"

\* The init effect ran with Firebase configured and attached no listener:
\* opening the subscription threw.
SubscribeThrew(c) ==
  isFirebaseConfigured /\ phase[c] = "init" /\ phase'[c] = "mounted" /\ ~subscribed'[c]

AdoptOnlyIfNewer ==
  [][\A c \in Clients :
       (/\ IsDelivery(c)
        /\ Head(inbox[c]) # Null
        /\ state[c].board # Null
        /\ convertTimestamps(Head(inbox[c]), now).updatedAt < state[c].board.updatedAt)
       => state'[c].board = state[c].board]_vars

\* The store of client c has a board and is no longer loading.
Initialized(c) == state[c].board # Null /\ ~state[c].loading

LatestDoc(c) ==
  IF timer[c] # NoTimer THEN FirestoreDoc(timer[c].board)
  ELSE IF inflight[c] # <<>> THEN FirestoreDoc(inflight[c][Len(inflight[c])].board)
  ELSE remoteDoc

\* Nothing is pending for client c and its status is synced.
Settled(c) ==
  /\ timer[c] = NoTimer
  /\ inflight[c] = <<>>
  /\ state[c].syncStatus = "synced"
  /\ remoteDoc # Null

\* C25 - Eventual sync.  With Firebase configured, one client, no other
\* writer and saves that succeed: the board a mutation produces is the newest
\* board on its way to the remote, no later step but another mutation changes
\* which board that is, and once mutations have stopped the client comes to
\* rest with no timer pending, no save in flight and syncStatus = synced; the
\* remote document is then the board of the last mutation.
EventualSync ==
  /\ <>[](Settled("A"))
  /\ [][\A c \in Clients : IsMutation(c) => LatestDoc(c)' = FirestoreDoc(state'[c].board)]_vars
  /\ [][\A c \in Clients : ops[c] >= 1 /\ ~IsMutation(c) => LatestDoc(c)' = LatestDoc(c)]_vars

\* Two mutations were made and everything came to rest: the remote document
\* holds the task the store added, and the listener has handed over every
\* snapshot.
SyncedAfterEdits ==
  /\ ops["A"] = MaxOps
  /\ Settled("A")
  /\ inbox["A"] = <<>>
  /\ HasTask(remoteDoc, "id-1")
  /\ state["A"].board # Null
  /\ remoteDoc.updatedAt = FsDate(state["A"].board.updatedAt)

\* The dates the lookup is asked about: the ends of a week column, days
\* inside and outside it, and a day after the wedding.
LookupDates == {20260201, 20260203, 20260207, 20260208, 20260215, 20260704}

\* The positions of the timeframes whose metadata range holds day d.
Containing(d, tfs) ==
  {i \in DOMAIN tfs : HasDates(tfs[i]) /\ tfs[i].startDate <= d /\ d <= tfs[i].endDate}

\* The positions of the timeframes whose name is in the legacy table with a
\* range that holds day d.
LegacyContaining(d, tfs) ==
  {i \in DOMAIN tfs : /\ tfs[i].name \in DOMAIN LEGACY_TIMEFRAME_RANGES
                      /\ LEGACY_TIMEFRAME_RANGES[tfs[i].name].start <= d
                      /\ d <= LEGACY_TIMEFRAME_RANGES[tfs[i].name].end}

FirstOf(positions) == CHOOSE i \in positions : \A j \in positions : i <= j

\* C26 - Primary pass.  For every date and every list of timeframes of a
\* board in memory: if some timeframe's metadata range holds the date (both
\* ends included) the result is the id of the first such timeframe; the
\* result is never the id of a timeframe whose metadata range does not hold
\* the date; and a null date, or a date no pass matches, gives no match.
PrimaryPass ==
  \A c \in Clients : state[c].board # Null =>
    LET tfs == state[c].board.timeframes
    IN  /\ findTimeframeForDate(NoDate, tfs) = NoId
        /\ \A d \in LookupDates :
             LET result == findTimeframeForDate(d, tfs)
             IN  /\ Containing(d, tfs) # {} => result = tfs[FirstOf(Containing(d, tfs))].id
                 /\ \A i \in DOMAIN tfs :
                      tfs[i].id = result /\ HasDates(tfs[i]) => i \in Containing(d, tfs)
                 /\ Containing(d, tfs) = {} /\ LegacyContaining(d, tfs) = {} => result = NoId

DatedByStart(tfs) ==
  LET Dated(tf) == OrderStartDate(tf) # NoDate
  IN  SortByStart(SelectSeq(tfs, Dated))

\* The three cases of the order computed for date d: before all dated
\* timeframes, after all of them (or none dated), between two neighbours.
InsertionFormula(d, tfs) ==
  LET D == DatedByStart(tfs)
      later == {i \in DOMAIN D : OrderStartDate(D[i]) > d}
      result == calculateTimeframeOrder(d, tfs)
  IN  IF later = {} THEN result = OrdAdd(MaxOrder(Orders(tfs)), OrdInt(1))
      ELSE IF FirstOf(later) = 1 THEN result = OrdAdd(D[1].order, OrdInt(-1))
      ELSE result = OrdHalf(OrdAdd(D[FirstOf(later) - 1].order, D[FirstOf(later)].order))

\* C28 - Insertion order.  For every date and the timeframes of every board
\* in memory, the computed order is firstOrder - 1 before all dated
\* timeframes, maxOrder + 1 after all of them, the midpoint of the two
\* neighbours otherwise, and differs from the order of every timeframe of
\* the list, dated or undated.
InsertionOrderIsNew ==
  \A c \in Clients : state[c].board # Null =>
    LET tfs == state[c].board.timeframes
    IN  \A d \in LookupDates :
          /\ InsertionFormula(d, tfs)
          /\ \A i \in DOMAIN tfs : tfs[i].order # calculateTimeframeOrder(d, tfs)

\* The timeframes of `after` that `before` does not have.
Synthesized(before, after) ==
  {tf \in Members(after.timeframes) : tf.id \notin IdSet(before.timeframes)}

\* new is ordered after every timeframe of tfs that starts before day d and
\* before every one that starts after d.
Chronological(new, d, tfs) ==
  \A i \in DOMAIN tfs :
    /\ OrderStartDate(tfs[i]) # NoDate /\ OrderStartDate(tfs[i]) < d
         => OrdLess(tfs[i].order, new.order)
    /\ OrderStartDate(tfs[i]) > d => OrdLess(new.order, tfs[i].order)

\* C29 - Position of a synthesized timeframe.  When updateTask creates a
\* timeframe for due date d, the new timeframe is ordered after every
\* timeframe that starts before d and before every timeframe that starts
\* after d, also on a board whose columns were moved before or that has
\* undated timeframes.
SynthesizedInPlace ==
  [][\A c \in Clients : IsMutation(c) /\ closure[c].board # Null =>
       \A id \in IdSet(closure[c].board.tasks), updates \in DueUpdates :
         SetsDueDate(updates) /\ updateTask(c, id, updates) =>
           \A new \in Synthesized(closure[c].board, state'[c].board) :
             Chronological(new, updates.dueDate, closure[c].board.timeframes)]_vars

\* C30 - Date-range well-formedness.  Every timeframe of a board in memory
\* that has both startDate and endDate has startDate <= endDate, after every
\* load (metadata backfilled from the legacy table or parsed from a name such
\* as a day range included) and after every synthesis of a timeframe for a
\* due date.
RangesWellFormed ==
  \A c \in Clients : state[c].board # Null =>
    \A i \in DOMAIN state[c].board.timeframes :
      HasDates(state[c].board.timeframes[i])
        => state[c].board.timeframes[i].startDate <= state[c].board.timeframes[i].endDate

\* The fields backfill never writes are those of the input, field for field.
SameButDates(before, after) ==
  /\ DOMAIN after \ {"startDate", "endDate"} = DOMAIN before \ {"startDate", "endDate"}
  /\ \A f \in DOMAIN before \ {"startDate", "endDate"} : after[f] = before[f]

\* C31 - Backfill frame.  For the timeframes of every board in memory, the
\* backfilled list has the same length and order; a timeframe that has both
\* dates, and one whose name is neither in the legacy table nor parsed by any
\* pattern, is returned as it is; every timeframe keeps its id, name, order
\* and hidden flag; and backfilling the result again changes nothing.
BackfillFrame ==
  \A c \in Clients : state[c].board # Null =>
    LET tfs == state[c].board.timeframes
        out == backfillTimeframeDates(tfs)
    IN  /\ Len(out) = Len(tfs)
        /\ \A i \in DOMAIN tfs :
             /\ SameButDates(tfs[i], out[i])
             /\ HasDates(tfs[i]) => out[i] = tfs[i]
             /\ tfs[i].name \notin DOMAIN LEGACY_TIMEFRAME_RANGES
                  /\ parseTimeframeName(tfs[i].name) = Null => out[i] = tfs[i]
        /\ backfillTimeframeDates(out) = out

\* The board in memory has the column "Jun 1-7" the user added and then hid,
\* still without dates, next to the other columns of the board; backfill
\* gives it 1 to 7 June and keeps the hidden flag.
BackfillFillsHidden ==
  LET board == state["A"].board
  IN  /\ board # Null
      /\ \E i \in DOMAIN board.timeframes :
           /\ board.timeframes[i].name = "Jun 1-7"
           /\ ~HasDates(board.timeframes[i])
           /\ Get(board.timeframes[i], "hidden", FALSE)
           /\ backfillOne(board.timeframes[i]).startDate = 20250601
           /\ backfillOne(board.timeframes[i]).endDate = 20250607
           /\ backfillOne(board.timeframes[i]).hidden
      /\ \E i \in DOMAIN board.timeframes : board.timeframes[i].name # "Jun 1-7"

\* The name is in the legacy table or a pattern of parseTimeframeName
\* yields a range for it.
Resolvable(name) ==
  name \in DOMAIN LEGACY_TIMEFRAME_RANGES \/ parseTimeframeName(name) # Null

\* Every timeframe of the board with a resolvable name has both dates.
Backfilled(board) ==
  \A i \in DOMAIN board.timeframes :
    Resolvable(board.timeframes[i].name) => HasDates(board.timeframes[i])

\* A step of client c that replaces its board other than by a mutation: the
\* init effect or a callback of the listener adopts a board.
Adopts(c) ==
  /\ ~IsMutation(c)
  /\ state'[c].board # state[c].board
  /\ state'[c].board # Null

\* The adopted board is the delivered remote document.
AdoptsSnapshot(c) ==
  /\ Adopts(c)
  /\ subscribed[c] /\ subscribed'[c]
  /\ inbox[c] # <<>> /\ inbox'[c] = Tail(inbox[c])
  /\ Head(inbox[c]) # Null

\* C32 - Backfill on every load, as claimed.  Whatever the source of an
\* adopted board (remote snapshot, local cache or generated seed), every
\* timeframe of it with a resolvable name has startDate and endDate.
AdoptedIsBackfilled ==
  [][\A c \in Clients : Adopts(c) => Backfilled(state'[c].board)]_vars

\* C32 - Backfill on every load, as coded.  A board adopted from a remote
\* snapshot or from the local cache has startDate and endDate on every
\* timeframe with a resolvable name; with no remote document and no cached
\* board the generated seed board is adopted as generated, its legacy-named
\* timeframes without metadata.
LoadedIsBackfilled ==
  [][\A c \in Clients : Adopts(c) =>
       IF AdoptsSnapshot(c) \/ cache[c] # Null
       THEN Backfilled(state'[c].board)
       ELSE /\ state'[c].board = createDefaultBoard(now)
            /\ ~Backfilled(state'[c].board)]_vars

\* The browser fell back to its cached board, which an earlier session had
\* left without metadata: the legacy column "Post-Wedding" now runs from
\* 18 May to 31 December 2026 in memory.
CachedBoardBackfilled ==
  /\ state["A"].board # Null
  /\ state["A"].syncStatus = "offline"
  /\ \E i \in DOMAIN state["A"].board.timeframes :
       /\ state["A"].board.timeframes[i].name = "Post-Wedding"
       /\ state["A"].board.timeframes[i].startDate = 20260518
       /\ state["A"].board.timeframes[i].endDate = 20261231

Statuses == {"not_started", "in_progress", "completed"}

Assignees == {"unassigned", "bride", "groom", "both", "other"}

Priorities == {"normal", "high"}

\* C33 - Normalization on every read, as claimed.  Every board in memory
\* adopted from the cache or a snapshot has its three lists, and every task
\* of it has a checklist, notes, and a status, an assignee and a priority of
\* the documented sets.
ReadIsNormalized ==
  \A c \in Clients : state[c].board # Null =>
    /\ {"categories", "timeframes", "tasks"} \subseteq DOMAIN state[c].board
    /\ \A i \in DOMAIN state[c].board.tasks :
         LET task == state[c].board.tasks[i]
         IN  /\ {"checklist", "notes"} \subseteq DOMAIN task
             /\ task.status \in Statuses
             /\ task.assignee \in Assignees
             /\ task.priority \in Priorities

\* The stored document an adopting step of client c reads.
ReadSource(c) == IF AdoptsSnapshot(c) THEN Head(inbox[c]) ELSE cache[c]

\* value || fallback and value ?? fallback of a stored field.
StoredOr(stored, field, fallback) ==
  IF field \notin DOMAIN stored \/ stored[field] = "" THEN fallback ELSE stored[field]

\* The task in memory is the stored one with the defaults of the readers.
DefaultsApplied(stored, task) ==
  /\ task.checklist = Get(stored, "checklist", <<>>)
  /\ task.notes = Get(stored, "notes", "")
  /\ task.status = StoredOr(stored, "status", "not_started")
  /\ task.assignee = StoredOr(stored, "assignee", "unassigned")
  /\ task.priority = StoredOr(stored, "priority", "normal")

\* C33 - Normalization on every read, as coded.  A board adopted from the
\* cache or from a snapshot has its three lists, a missing one as the empty
\* list, and every task of it is the stored task with the missing values
\* filled: checklist empty, notes empty, status not_started, assignee
\* unassigned, priority normal (an empty status, assignee or priority counts
\* as missing).  A stored value is kept, also one outside the documented
\* sets; both readers fill alike.
ReadFillsMissing ==
  [][\A c \in Clients : Adopts(c) /\ ReadSource(c) # Null =>
       LET stored == ReadSource(c)
           board == state'[c].board
       IN  /\ Len(board.categories) = Len(Get(stored, "categories", <<>>))
           /\ Len(board.timeframes) = Len(Get(stored, "timeframes", <<>>))
           /\ Len(board.tasks) = Len(Get(stored, "tasks", <<>>))
           /\ \A i \in DOMAIN board.tasks : DefaultsApplied(stored.tasks[i], board.tasks[i])]_vars

\* The board read from the tool's document: its task kept the status
\* "bogus", the empty priority became normal, the missing assignee
\* unassigned and the missing checklist the empty list.
ReadKeepsBogusStatus ==
  /\ state["A"].board # Null
  /\ \E i \in DOMAIN state["A"].board.tasks :
       /\ state["A"].board.tasks[i].id = "task-cli"
       /\ state["A"].board.tasks[i].status = "bogus"
       /\ state["A"].board.tasks[i].priority = "normal"
       /\ state["A"].board.tasks[i].assignee = "unassigned"
       /\ state["A"].board.tasks[i].checklist = <<>>
       /\ state["A"].board.tasks[i].notes = "call first"

\* newBoard with the timestamp updateBoard gives it.
Stamped(newBoard) == [newBoard EXCEPT !.updatedAt = now]

\* C34 - No lost local update.  With no snapshot after the first, every
\* addTask, updateTask and deleteTask leaves the board that the operation
\* makes of the board in memory at the time of the call, also when the call
\* follows another mutation before the store has re-rendered.
NoLostUpdate ==
  [][\A c \in Clients : IsMutation(c) /\ state[c].board # Null =>
       /\ \A cat \in IdSet(closure[c].board.categories),
             tf \in IdSet(closure[c].board.timeframes) :
            LET data == [NewTaskData EXCEPT !.categoryId = cat, !.timeframeId = tf]
            IN  addTask(c, data) =>
                  state'[c].board = Stamped(addTaskBoard(state[c].board, data, FreshId, now))
       /\ \A id \in IdSet(closure[c].board.tasks), updates \in DueUpdates :
            updateTask(c, id, updates) =>
              state'[c].board =
                Stamped(updateTaskBoard(state[c].board, id, updates, FreshId, now))
       /\ \A id \in IdSet(closure[c].board.tasks) :
            deleteTask(c, id) =>
              state'[c].board = Stamped(deleteTaskBoard(state[c].board, id))]_vars

\* C35 - Truthfulness of the synced indicator.  With Firebase configured
\* and one client, whenever syncStatus is synced no debounce timer is
\* pending, no save is in flight and the remote document is the board in
\* memory.
SyncedIsTruthful ==
  \A c \in Clients : state[c].board # Null /\ state[c].syncStatus = "synced" =>
    /\ timer[c] = NoTimer
    /\ inflight[c] = <<>>
    /\ remoteDoc = FirestoreDoc(state[c].board)

\* The step settles the only save of client c still in flight.
LastSaveSettles(c) ==
  /\ phase[c] = "mounted"
  /\ Len(inflight[c]) = 1
  /\ inflight'[c] = <<>>

\* C36 - Status follows the latest write.  When the last save in flight
\* settles, syncStatus is the outcome of that save, the most recently
\* started one: synced when it was stored, error when it failed.
StatusFollowsLatestWrite ==
  [][\A c \in Clients : LastSaveSettles(c) =>
       state'[c].syncStatus = IF writes' = writes + 1 THEN "synced" ELSE "error"]_vars

\* The listener of client c hands over a snapshot that reports no document,
\* and it is not its first snapshot.
LaterEmptySnapshot(c) ==
  /\ subscribed[c] /\ subscribed'[c]
  /\ inbox[c] # <<>> /\ inbox'[c] = Tail(inbox[c])
  /\ Head(inbox[c]) = Null
  /\ ~isFirstLoad[c]

\* C37 - A later empty snapshot.  A snapshot that reports that the remote
\* document does not exist, delivered after the first snapshot, leaves the
\* board in memory, the cache and syncStatus as they are and starts no
\* remote write: no save in flight, no timer, no change of the document.
LaterEmptySnapshotIgnored ==
  [][\A c \in Clients : LaterEmptySnapshot(c) =>
       /\ state'[c].board = state[c].board
       /\ state'[c].syncStatus = state[c].syncStatus
       /\ state'[c].selectedTaskId = state[c].selectedTaskId
       /\ UNCHANGED <<cache, inflight, timer, remoteDoc, writes>>]_vars

\* The browser loaded the shared board, the document was then deleted by
\* another writer, and the listener has handed over the empty snapshot: the
\* board in memory is still the shared one and nothing is being written.
BoardOutlivesDeletion ==
  /\ remoteDoc = Null
  /\ externals = 1
  /\ subscribed["A"]
  /\ inbox["A"] = <<>>
  /\ inflight["A"] = <<>>
  /\ state["A"].board # Null
  /\ HasTask(state["A"].board, "task-shared")
  /\ state["A"].syncStatus = "synced"

\* The timeout callback of client c runs (the cleanup of an unmount clears
\* the timer without running it).
TimeoutRuns(c) ==
  /\ phase[c] = "mounted" /\ phase'[c] = "mounted"
  /\ timer[c] # NoTimer /\ timer'[c] = NoTimer

Quiescent(c) ==
  /\ phase[c] = "mounted"
  /\ Rendered(c)
  /\ state[c].board # Null
  /\ timer[c] = NoTimer
  /\ inflight[c] = <<>>
  /\ inbox[c] = <<>>

\* The board holds what the store created under the k-th generated id.
HoldsId(board, k) ==
  LET id == "id-" \o ToString(k)
  IN  \/ \E i \in DOMAIN board.tasks : board.tasks[i].id = id
      \/ \E i \in DOMAIN board.timeframes : board.timeframes[i].id = id

\* C40 - Own-write echo is harmless.  One client, no other writer, every
\* store call made on the current render, every save stored and echoed: when
\* the client is at rest, whatever the store created (each task added, each
\* timeframe created, under the ids generated so far) is in the board in
\* memory and in the remote document.
EchoIsHarmless ==
  Quiescent("A") =>
    /\ remoteDoc # Null
    /\ \A k \in 1..nextId : HoldsId(state["A"].board, k) /\ HoldsId(remoteDoc, k)

\* The board in memory and the cache of client c are the remote document, as
\* the listener loads it and as saveToStorage writes it.
HoldsRemote(c) ==
  /\ remoteDoc # Null
  /\ state[c].board = convertTimestamps(remoteDoc, now)
  /\ cache[c] = JSONStringify(state[c].board)

====
